---------------------------- MODULE Spec2Model ----------------------------
(***************************************************************************)
(* A model of the hardware utilisation monitor (hardware_measure.py) and   *)
(* of the accelerator-usage estimators that accompany it.                  *)
(*                                                                         *)
(* Numbers.  The program computes with Python floats.  The aggregation     *)
(* layer (counter values, summaries, running averages) is modelled in      *)
(* exact fixed point: a quantity q is the integer q * Scale, and Scale is  *)
(* divisible by every divisor the code can use there (the length of a      *)
(* top-5 list, 1..5).  A NaN reading is a value of its own, for which      *)
(* every comparison is false, as for a float.  The estimators are          *)
(* modelled over exact rationals [n, d].  Rounding error of floats is      *)
(* not modelled.                                                           *)
(*                                                                         *)
(* Text.  A label or keyword is a sequence of one-character strings, so    *)
(* that lower-casing and substring search are computed, not assumed.       *)
(***************************************************************************)
EXTENDS Integers, Sequences, FiniteSets, TLC

VARIABLES
    \* the aggregation layer
    raw,            \* formatted counter readings of one collection: <<[name, value]>>
    gpu_available,  \* HardwareMonitor._gpu_available
    npu_available,  \* npu_collector._available
    summary,        \* the last summary returned to a caller, and by which call
    repeated,       \* history: the last call repeated the call before it
    \* one RunningAverage
    ra,             \* [total, count]: RunningAverage._total, ._count
    ra_args,        \* history: the arguments of the add calls, in order
    \* the CPU-pattern estimators, fed by the samples of one host
    workload,       \* the host's load levels of this session (environment)
    n_idle,         \* ticks without AI activity so far
    n_active,       \* ticks with AI activity so far
    cpu_baseline,   \* npu_monitor.NPUUsageEstimator.cpu_baseline
    cpu_during_ai,  \* npu_monitor.NPUUsageEstimator.cpu_during_ai
    ai_process_count, \* npu_monitor.NPUUsageEstimator.ai_process_count
    npu_estimate,   \* result of estimate_npu_usage() in the last collect_metrics()
    off_baseline,   \* ai_activity_detector.NPUUsageEstimator.cpu_baseline
    off_during_ai,  \* ai_activity_detector.NPUUsageEstimator.cpu_during_ai
    off_estimate,   \* result of estimate_npu_offload() in the last tick
    simple_baseline, \* SimpleNPUMonitor.cpu_baseline
    simple_ai,      \* SimpleNPUMonitor.ai_cpu_usage
    simple_estimate, \* result of the last estimate_npu_from_cpu()
    \* two window contents given to one estimator
    mono_in,        \* <<first, second>> window contents
    mono_out,       \* the estimator applied and its two results
    \* the blended estimators
    blend,          \* the last result of a blended estimator, with its contributions
    \* the monitor loops
    hm,             \* HardwareMonitor.start_monitoring and its SystemCollector
    fm,             \* FinalNPUMonitor: monitoring_active, the loop thread, its results
    \* the loop threads of one monitor object and the reader of its history
    mon,            \* the object: its class, its stop flag, monitor_thread, the caller
    loops,          \* per loop thread: where it is and the tick it is in
    activity_history, \* the deque the loop appends to (results_history in the NPU monitors)
    reader,         \* a get_current_ai_activity() call in progress and its result
    \* one PDHCollector over a session
    pdh,            \* the counter subsystem it meets, what _try_build left, its samples
    \* one estimator applied to given window contents
    est_in,         \* the window contents
    est_out         \* the estimator applied, its inputs of the tick and its result

aggVars == <<raw, gpu_available, npu_available, summary, repeated>>

raVars == <<ra, ra_args>>

estVars == <<workload, n_idle, n_active, cpu_baseline, cpu_during_ai, ai_process_count,
             npu_estimate, off_baseline, off_during_ai, off_estimate,
             simple_baseline, simple_ai, simple_estimate>>

monoVars == <<mono_in, mono_out>>

blendVars == <<blend>>

loopVars == <<hm, fm>>

thrVars == <<mon, loops, activity_history, reader>>

colVars == <<pdh>>

applyVars == <<est_in, est_out>>

vars == <<aggVars, raVars, estVars, monoVars, blendVars, loopVars, thrVars, colVars,
          applyVars>>

\* what the operations of one component leave alone
notAggVars == <<raVars, estVars, monoVars, blendVars, loopVars, thrVars, colVars, applyVars>>

notRaVars == <<aggVars, estVars, monoVars, blendVars, loopVars, thrVars, colVars, applyVars>>

notEstVars == <<aggVars, raVars, monoVars, blendVars, loopVars, thrVars, colVars, applyVars>>

notMonoVars == <<aggVars, raVars, estVars, blendVars, loopVars, thrVars, colVars, applyVars>>

notBlendVars == <<aggVars, raVars, estVars, monoVars, loopVars, thrVars, colVars, applyVars>>

notLoopVars == <<aggVars, raVars, estVars, monoVars, blendVars, thrVars, colVars, applyVars>>

notThrVars == <<aggVars, raVars, estVars, monoVars, blendVars, loopVars, colVars, applyVars>>

notColVars == <<aggVars, raVars, estVars, monoVars, blendVars, loopVars, thrVars, applyVars>>

notApplyVars == <<aggVars, raVars, estVars, monoVars, blendVars, loopVars, thrVars, colVars>>

-----------------------------------------------------------------------------
(* Fixed point *)

Scale == 3 * 4 * 5

P(p) == p * Scale

Num(v) == [nan |-> FALSE, v |-> v]

NaN == [nan |-> TRUE, v |-> 0]

IsNan(x) == x.nan

\* float comparison "x < 0": false for NaN
LtZero(x) == (~x.nan) /\ x.v < 0

Min2(a, b) == IF a <= b THEN a ELSE b

Max2(a, b) == IF a >= b THEN a ELSE b

\* max(0.0, min(100.0, value))
Clamp(value) == Max2(0, Min2(P(100), value))

RECURSIVE SumSeq(_)
SumSeq(s) == IF s = <<>> THEN 0 ELSE Head(s) + SumSeq(Tail(s))

RECURSIVE MaxSeq(_)
MaxSeq(s) == IF Len(s) = 1 THEN Head(s) ELSE Max2(Head(s), MaxSeq(Tail(s)))

-----------------------------------------------------------------------------
(* Text *)

\* str.lower() on the characters the labels and keywords use
LowerChar(c) ==
    CASE c = "C" -> "c" [] c = "O" -> "o" [] c = "M" -> "m" [] c = "P" -> "p"
      [] c = "U" -> "u" [] c = "T" -> "t" [] c = "E" -> "e" [] c = "Y" -> "y"
      [] c = "V" -> "v" [] c = "I" -> "i" [] c = "D" -> "d" [] c = "N" -> "n"
      [] OTHER -> c

Lower(s) == [i \in 1..Len(s) |-> LowerChar(s[i])]

\* Python's "tag in name" on strings
Contains(tag, name) ==
    \E i \in 1..(Len(name) - Len(tag) + 1) : SubSeq(name, i, i + Len(tag) - 1) = tag

KwCompute == <<"C","o","m","p","u","t","e">>

KwCopy == <<"C","o","p","y">>

KwVideo == <<"V","i","d","e","o">>

Kw3D == <<"3","D">>

StrCompute == <<"c","o","m","p","u","t","e">>

StrEngtypeCompute == <<"e","n","g","t","y","p","e","_","c","o","m","p","u","t","e">>

\* gpu_collector = PDHCollector(..., include_names=["Compute"], exclude_contains=["Copy","Video","3D"])
GpuIncludeNames == <<KwCompute>>

GpuExcludeContains == <<KwCopy, KwVideo, Kw3D>>

\* npu_collector = PDHCollector(pattern): no keywords
NpuIncludeNames == <<>>

NpuExcludeContains == <<>>

-----------------------------------------------------------------------------
(* RunningAverage *)

None == [none |-> TRUE, v |-> 0]

Some(v) == [none |-> FALSE, v |-> v]

\* RunningAverage.__init__
RaNew == [total |-> 0, count |-> 0]

\* an add that counts a None argument as a sample of 0
RaAddCountsNone(r, value) ==
    [total |-> r.total + value.v, count |-> r.count + 1]

\* RunningAverage.add
RaAdd(r, value) ==
    IF ~value.none
    THEN [total |-> r.total + value.v, count |-> r.count + 1]
    ELSE r

\* RunningAverage.has_samples
RaHasSamples(r) == r.count > 0

\* RunningAverage.average, as the exact quotient n / d
RaAverage(r) ==
    IF r.count # 0 THEN [n |-> r.total, d |-> r.count] ELSE [n |-> 0, d |-> 1]

RaIdle == ra = RaNew /\ ra_args = <<>>

-----------------------------------------------------------------------------
(* Exact rationals for the estimators: [n, d] in lowest terms, n >= 0, d > 0 *)

RECURSIVE Gcd(_, _)
Gcd(a, b) == IF b = 0 THEN a ELSE Gcd(b, a % b)

R(n, d) == [n |-> n \div Gcd(n, d), d |-> d \div Gcd(n, d)]

RLt(a, b) == a.n * b.d < b.n * a.d

RLe(a, b) == a.n * b.d <= b.n * a.d

\* equality of rationals in lowest terms
REq(a, b) == a.n = b.n /\ a.d = b.d

RMin(a, b) == IF RLe(a, b) THEN a ELSE b

RMul(a, k) == R(a.n * k, a.d)

\* sum(window) / len(window)
Mean(window) == R(SumSeq(window), Len(window))

\* deque(maxlen=maxlen).append(x)
\* a bounded window that makes room by dropping its newest sample
DequeAppendEvictsNewest(q, x, maxlen) ==
    IF Len(q) >= maxlen THEN Append(SubSeq(q, 1, Len(q) - 1), x) ELSE Append(q, x)

DequeAppend(q, x, maxlen) ==
    IF Len(q) >= maxlen THEN Append(Tail(q), x) ELSE Append(q, x)

\* (baseline_avg - ai_avg) / baseline_avg without the max(0, ...)
CpuReductionSigned(baseline, during_ai) ==
    R(SumSeq(baseline) * Len(during_ai) - SumSeq(during_ai) * Len(baseline),
      SumSeq(baseline) * Len(during_ai))

\* max(0, (baseline_avg - ai_avg) / baseline_avg), for sum(baseline) > 0
CpuReduction(baseline, during_ai) ==
    R(Max2(0, SumSeq(baseline) * Len(during_ai) - SumSeq(during_ai) * Len(baseline)),
      SumSeq(baseline) * Len(during_ai))

\* the estimators return None while they cannot estimate
NoEstimate == [kind |-> "none"]

-----------------------------------------------------------------------------
(* npu_monitor.NPUUsageEstimator *)

HistorySize == 60

MinBaseline == 10

MinActive == 5

\* the estimator with a threshold of 0.20 instead of 0.15
EstimateNpuUsageThreshold20(baseline, during_ai, process_count) ==
    IF Len(baseline) < MinBaseline \/ Len(during_ai) < MinActive THEN NoEstimate
    ELSE IF SumSeq(baseline) <= 0 THEN NoEstimate
    ELSE LET cpu_reduction == CpuReduction(baseline, during_ai)
             hit == RLt(R(20, 100), cpu_reduction) /\ SumSeq(process_count) > 0
         IN  [kind |-> "estimate",
              estimate |-> IF hit THEN RMin(R(100, 1), RMul(cpu_reduction, 150)) ELSE R(0, 1),
              confidence |-> IF hit THEN RMin(R(100, 1), RMul(cpu_reduction, 200)) ELSE R(0, 1),
              cpu_reduction_ratio |-> RMul(cpu_reduction, 100)]

\* the estimator without the guards on the sample counts and the baseline
EstimateNpuUsageUnguarded(baseline, during_ai, process_count) ==
    IF Len(baseline) = 0 \/ Len(during_ai) = 0 \/ SumSeq(baseline) <= 0
    THEN [kind |-> "estimate", estimate |-> R(0, 1), confidence |-> R(0, 1),
          cpu_reduction_ratio |-> R(0, 1)]
    ELSE LET cpu_reduction == CpuReduction(baseline, during_ai)
             hit == RLt(R(15, 100), cpu_reduction) /\ SumSeq(process_count) > 0
         IN  [kind |-> "estimate",
              estimate |-> IF hit THEN RMin(R(100, 1), RMul(cpu_reduction, 150)) ELSE R(0, 1),
              confidence |-> IF hit THEN RMin(R(100, 1), RMul(cpu_reduction, 200)) ELSE R(0, 1),
              cpu_reduction_ratio |-> RMul(cpu_reduction, 100)]

\* the estimator scaling the absolute drop of the mean instead of the relative one
EstimateNpuUsageAbsolute(baseline, during_ai, process_count) ==
    IF Len(baseline) < MinBaseline \/ Len(during_ai) < MinActive THEN NoEstimate
    ELSE IF SumSeq(baseline) <= 0 THEN NoEstimate
    ELSE LET cpu_reduction == CpuReduction(baseline, during_ai)
             drop == R(cpu_reduction.n * SumSeq(baseline),
                       cpu_reduction.d * Len(baseline) * 100)
             hit == RLt(R(15, 100), cpu_reduction) /\ SumSeq(process_count) > 0
         IN  [kind |-> "estimate",
              estimate |-> IF hit THEN RMin(R(100, 1), RMul(drop, 150)) ELSE R(0, 1),
              confidence |-> IF hit THEN RMin(R(100, 1), RMul(cpu_reduction, 200)) ELSE R(0, 1),
              cpu_reduction_ratio |-> RMul(cpu_reduction, 100)]

\* NPUUsageEstimator.estimate_npu_usage
EstimateNpuUsage(baseline, during_ai, process_count) ==
    IF Len(baseline) < MinBaseline \/ Len(during_ai) < MinActive THEN NoEstimate
    ELSE IF SumSeq(baseline) <= 0 THEN NoEstimate
    ELSE LET cpu_reduction == CpuReduction(baseline, during_ai)
             hit == RLt(R(15, 100), cpu_reduction) /\ SumSeq(process_count) > 0
         IN  [kind |-> "estimate",
              estimate |-> IF hit THEN RMin(R(100, 1), RMul(cpu_reduction, 150)) ELSE R(0, 1),
              confidence |-> IF hit THEN RMin(R(100, 1), RMul(cpu_reduction, 200)) ELSE R(0, 1),
              cpu_reduction_ratio |-> RMul(cpu_reduction, 100)]

-----------------------------------------------------------------------------
(* ai_activity_detector.NPUUsageEstimator *)

OffloadHistorySize == 30

\* NPUUsageEstimator.estimate_npu_offload: the result carries no confidence
EstimateNpuOffload(baseline, during_ai) ==
    IF Len(baseline) < 10 \/ Len(during_ai) < 5 THEN NoEstimate
    ELSE IF SumSeq(baseline) > 0
    THEN LET cpu_reduction_ratio == CpuReduction(baseline, during_ai)
         IN  [kind |-> "estimate",
              estimate |-> IF RLt(R(2, 10), cpu_reduction_ratio)
                           THEN RMin(R(100, 1), RMul(cpu_reduction_ratio, 100))
                           ELSE R(0, 1),
              cpu_reduction_ratio |-> cpu_reduction_ratio]
    ELSE NoEstimate

-----------------------------------------------------------------------------
(* SimpleNPUMonitor.estimate_npu_from_cpu *)

SimpleHistorySize == 60

SimpleMinBaseline == 20

SimpleMinActive == 10

\* the estimate with the threshold test >= 0.15 instead of > 0.15
EstimateNpuFromCpuAtThreshold(baseline, ai_cpu_usage) ==
    IF Len(baseline) < SimpleMinBaseline \/ Len(ai_cpu_usage) < SimpleMinActive THEN NoEstimate
    ELSE IF SumSeq(baseline) <= 0 THEN NoEstimate
    ELSE LET cpu_reduction == CpuReduction(baseline, ai_cpu_usage)
         IN  [kind |-> "estimate",
              estimate |-> IF RLe(R(15, 100), cpu_reduction)
                           THEN RMin(R(100, 1), RMul(cpu_reduction, 200))
                           ELSE R(0, 1)]

\* the part of estimate_npu_from_cpu after the append: the result is a number
EstimateNpuFromCpu(baseline, ai_cpu_usage) ==
    IF Len(baseline) < SimpleMinBaseline \/ Len(ai_cpu_usage) < SimpleMinActive THEN NoEstimate
    ELSE IF SumSeq(baseline) <= 0 THEN NoEstimate
    ELSE LET cpu_reduction == CpuReduction(baseline, ai_cpu_usage)
         IN  [kind |-> "estimate",
              estimate |-> IF RLt(R(15, 100), cpu_reduction)
                           THEN RMin(R(100, 1), RMul(cpu_reduction, 200))
                           ELSE R(0, 1)]

-----------------------------------------------------------------------------
(* enhanced_npu_monitor.SmartNPUEstimator *)

\* cpu_history and ai_activity_history are appended together, with one timestamp,
\* to deques of one maxlen: entry k of the model's history is [cpu, ai_active],
\* and the test abs(t_cpu - t_ai) < 2 of the zip is always true.
RecentWindow == 30

\* list(history)[-30:]
Recent(history) ==
    IF Len(history) <= RecentWindow THEN history
    ELSE SubSeq(history, Len(history) - RecentWindow + 1, Len(history))

RECURSIVE CpuWhere(_, _)
CpuWhere(history, flag) ==
    IF history = <<>> THEN <<>>
    ELSE IF Head(history).ai_active = flag
         THEN <<Head(history).cpu>> \o CpuWhere(Tail(history), flag)
         ELSE CpuWhere(Tail(history), flag)

\* SmartNPUEstimator._simple_estimation
SimpleEstimation(baseline_cpu, ai_peak_cpu) ==
    IF baseline_cpu = <<>> \/ ai_peak_cpu = <<>>
    THEN [kind |-> "estimate", estimate |-> R(0, 1), confidence |-> R(0, 1),
          method |-> "insufficient_data"]
    ELSE IF SumSeq(baseline_cpu) * Len(ai_peak_cpu) > SumSeq(ai_peak_cpu) * Len(baseline_cpu)
    THEN LET efficiency == CpuReduction(baseline_cpu, ai_peak_cpu)
         IN  [kind |-> "estimate",
              estimate |-> RMin(R(100, 1), RMul(efficiency, 150)),
              confidence |-> R(Min2(100, Len(ai_peak_cpu) * 2), 1),
              method |-> "simple_baseline"]
    ELSE [kind |-> "estimate", estimate |-> R(0, 1), confidence |-> R(50, 1),
          method |-> "no_efficiency_detected"]

\* SmartNPUEstimator.estimate_npu_usage
SmartEstimateNpuUsage(history, baseline_cpu, ai_peak_cpu) ==
    IF Len(history) < RecentWindow THEN NoEstimate
    ELSE LET ai_active_cpu == CpuWhere(Recent(history), TRUE)
             ai_inactive_cpu == CpuWhere(Recent(history), FALSE)
         IN  IF ai_active_cpu = <<>> \/ ai_inactive_cpu = <<>>
             THEN SimpleEstimation(baseline_cpu, ai_peak_cpu)
             ELSE LET cpu_efficiency == IF SumSeq(ai_inactive_cpu) > 0
                                        THEN CpuReduction(ai_inactive_cpu, ai_active_cpu)
                                        ELSE R(0, 1)
                      confidence == Min2(100, Len(ai_active_cpu) * 3)
                      hit == RLt(R(1, 10), cpu_efficiency)
                  IN  [kind |-> "estimate",
                       estimate |-> IF hit THEN RMin(R(100, 1), RMul(cpu_efficiency, 200))
                                    ELSE R(0, 1),
                       confidence |-> IF hit
                                      THEN RMin(R(100, 1),
                                                R(confidence * cpu_efficiency.d
                                                    + cpu_efficiency.n * 100,
                                                  cpu_efficiency.d))
                                      ELSE R(confidence, 1),
                       method |-> "advanced_analysis"]

-----------------------------------------------------------------------------
(* The blended estimators of final_npu_monitor and ultimate_npu_monitor.
   Percentages are fixed point (P); a process is [cpu_percent, ai_confidence]
   with the confidence in tenths; a Python value that is a string is Str(s). *)

Str(s) == [type |-> "str", s |-> s]

RECURSIVE SumCpu(_)
SumCpu(procs) == IF procs = <<>> THEN 0 ELSE Head(procs).cpu_percent + SumCpu(Tail(procs))

RECURSIVE SumConfidence(_)
SumConfidence(procs) ==
    IF procs = <<>> THEN 0 ELSE Head(procs).ai_confidence + SumConfidence(Tail(procs))

\* the AI-process step of estimate_npu_usage_indirect: contribution and label
FinalAiStep(ai_processes) ==
    LET ai_cpu_total == SumCpu(ai_processes)
    IN  IF ai_processes = <<>> THEN [part |-> 0, confidence |-> "low", indicators |-> 0]
        ELSE IF SumConfidence(ai_processes) > 7 * Len(ai_processes) /\ ai_cpu_total > P(10)
        THEN [part |-> Min2((ai_cpu_total * 3) \div 10, P(100)), confidence |-> "medium",
              indicators |-> 1]
        ELSE IF SumConfidence(ai_processes) > 5 * Len(ai_processes)
        THEN [part |-> Min2((ai_cpu_total * 2) \div 10, P(50)), confidence |-> "low-medium",
              indicators |-> 1]
        ELSE [part |-> 0, confidence |-> "low", indicators |-> 0]

\* the estimator without the final min(..., 100.0)
EstimateNpuUsageIndirectNoClamp(ai_processes, cpu_raises, cpu_percent, gpu_activity, power_change) ==
    LET ai == FinalAiStep(ai_processes)
        efficiency_bonus == IF cpu_percent < P(20) /\ Len(ai_processes) > 0
                            THEN (P(20) - cpu_percent) * 2 ELSE 0
        gpu_part == IF gpu_activity > P(5) THEN gpu_activity \div 2 ELSE 0
        power_part == IF power_change THEN P(10) ELSE 0
        indicators == ai.indicators + (IF efficiency_bonus > 0 THEN 1 ELSE 0)
                          + (IF gpu_activity > P(5) THEN 1 ELSE 0)
                          + (IF power_change THEN 1 ELSE 0)
    IN  IF cpu_raises
        THEN [source |-> "final", raised |-> TRUE, estimate |-> ai.part,
              confidence |-> Str(ai.confidence), indicators |-> ai.indicators + 1,
              ai_part |-> ai.part, efficiency_part |-> 0, gpu_part |-> 0, power_part |-> 0]
        ELSE [source |-> "final", raised |-> FALSE,
              estimate |-> ai.part + efficiency_bonus + gpu_part + power_part,
              confidence |-> Str(IF indicators >= 3 THEN "high"
                                 ELSE IF indicators >= 2 THEN "medium"
                                 ELSE IF gpu_activity > P(5) THEN "medium-high"
                                 ELSE ai.confidence),
              indicators |-> indicators,
              ai_part |-> ai.part, efficiency_part |-> efficiency_bonus,
              gpu_part |-> gpu_part, power_part |-> power_part]

\* FinalNPUMonitor.estimate_npu_usage_indirect.  Inside its try only
\* psutil.cpu_percent / psutil.cpu_count can raise (monitor_ai_processes and the
\* GPU and power samplers catch everything themselves); cpu_raises is that case,
\* and the except branch returns what has been accumulated so far.
EstimateNpuUsageIndirect(ai_processes, cpu_raises, cpu_percent, gpu_activity, power_change) ==
    LET ai == FinalAiStep(ai_processes)
        efficiency_bonus == IF cpu_percent < P(20) /\ Len(ai_processes) > 0
                            THEN (P(20) - cpu_percent) * 2 ELSE 0
        gpu_part == IF gpu_activity > P(5) THEN gpu_activity \div 2 ELSE 0
        power_part == IF power_change THEN P(10) ELSE 0
        indicators == ai.indicators + (IF efficiency_bonus > 0 THEN 1 ELSE 0)
                          + (IF gpu_activity > P(5) THEN 1 ELSE 0)
                          + (IF power_change THEN 1 ELSE 0)
    IN  IF cpu_raises
        THEN [source |-> "final", raised |-> TRUE, estimate |-> ai.part,
              confidence |-> Str(ai.confidence), indicators |-> ai.indicators + 1,
              ai_part |-> ai.part, efficiency_part |-> 0, gpu_part |-> 0, power_part |-> 0]
        ELSE [source |-> "final", raised |-> FALSE,
              estimate |-> Min2(ai.part + efficiency_bonus + gpu_part + power_part, P(100)),
              confidence |-> Str(IF indicators >= 3 THEN "high"
                                 ELSE IF indicators >= 2 THEN "medium"
                                 ELSE IF gpu_activity > P(5) THEN "medium-high"
                                 ELSE ai.confidence),
              indicators |-> indicators,
              ai_part |-> ai.part, efficiency_part |-> efficiency_bonus,
              gpu_part |-> gpu_part, power_part |-> power_part]

\* UltimateNPUMonitor.estimate_npu_utilization
EstimateNpuUtilization(gpu_compute_avg, cpu_utility, ai_processes, etw_events) ==
    LET ai_cpu_total == SumCpu(ai_processes)
        etw_factor == IF etw_events > 0 THEN Min2(etw_events * P(10), P(50)) ELSE 0
        ai_factor == IF ai_processes # <<>> THEN Min2((ai_cpu_total * 3) \div 10, P(30)) ELSE 0
        gpu_factor == IF gpu_compute_avg > P(5) THEN Min2(gpu_compute_avg \div 2, P(20)) ELSE 0
        efficiency_bonus == IF cpu_utility < P(30) /\ ai_processes # <<>>
                            THEN (P(30) - cpu_utility) \div 2 ELSE 0
        c1 == IF etw_events > 0 THEN "high" ELSE "low"
        c2 == IF ai_processes # <<>> /\ ai_cpu_total > P(20) /\ c1 = "low"
              THEN "medium-high" ELSE c1
        c3 == IF gpu_compute_avg > P(5) /\ c2 = "low" THEN "medium" ELSE c2
    IN  [source |-> "ultimate", raised |-> FALSE,
         estimate |-> Min2(etw_factor + ai_factor + gpu_factor + efficiency_bonus, P(100)),
         confidence |-> Str(c3),
         etw_part |-> etw_factor, ai_part |-> ai_factor, gpu_part |-> gpu_factor,
         efficiency_part |-> efficiency_bonus]

-----------------------------------------------------------------------------
(* The host the estimators sample *)

\* the deviation of the k-th idle (active) CPU reading from the idle (active)
\* load level of the session
IdlePattern == <<0, 2, -2, 1, -1, 0, 3, -3, 0, 1>>

ActivePattern == <<0, 2, -2, 1, -1>>

\* psutil.cpu_percent(): a percentage, never negative
CpuReading(level, amp, pattern, k) ==
    Max2(0, Min2(100, level + amp * pattern[(k % Len(pattern)) + 1]))

Workloads ==
    [idle : {0, 20, 50}, active : {0, 30, 41, 45}, amp : {0, 1}, procs : {1, 2}]

EstIdle ==
    /\ workload = [idle |-> 0, active |-> 0, amp |-> 0, procs |-> 1]
    /\ n_idle = 0
    /\ n_active = 0
    /\ cpu_baseline = <<>>
    /\ cpu_during_ai = <<>>
    /\ ai_process_count = <<>>
    /\ npu_estimate = NoEstimate
    /\ off_baseline = <<>>
    /\ off_during_ai = <<>>
    /\ off_estimate = NoEstimate
    /\ simple_baseline = <<>>
    /\ simple_ai = <<>>
    /\ simple_estimate = NoEstimate

-----------------------------------------------------------------------------
(* PDHCollector._filter_data *)

AnyTagIn(tags, name) ==
    \E k \in 1..Len(tags) : Contains(Lower(tags[k]), Lower(name))

\* a filter that forgets the exclude keywords
FilterKeepsNoExclude(e, include_names, exclude_contains) ==
    /\ ~(include_names # <<>> /\ ~AnyTagIn(include_names, e.name))
    /\ ~(IsNan(e.value) \/ LtZero(e.value))

\* a filter that compares the include keywords without lower()
FilterKeepsCaseSensitive(e, include_names, exclude_contains) ==
    /\ ~(include_names # <<>>
         /\ ~\E k \in 1..Len(include_names) : Contains(include_names[k], e.name))
    /\ ~(exclude_contains # <<>> /\ AnyTagIn(exclude_contains, e.name))
    /\ ~(IsNan(e.value) \/ LtZero(e.value))

FilterKeeps(e, include_names, exclude_contains) ==
    /\ ~(include_names # <<>> /\ ~AnyTagIn(include_names, e.name))
    /\ ~(exclude_contains # <<>> /\ AnyTagIn(exclude_contains, e.name))
    /\ ~(IsNan(e.value) \/ LtZero(e.value))

RECURSIVE FilterData(_, _, _)
FilterData(data, include_names, exclude_contains) ==
    IF data = <<>> THEN <<>>
    ELSE LET e == Head(data)
             rest == FilterData(Tail(data), include_names, exclude_contains)
         IN  IF FilterKeeps(e, include_names, exclude_contains)
             THEN <<[name |-> e.name, value |-> Num(e.value.v)]>> \o rest
             ELSE rest

-----------------------------------------------------------------------------
(* UtilityFunctions.summarize_engine_util *)

\* the validity check of summarize_engine_util: drop NaN and negative values
RECURSIVE ValidEntries(_)
ValidEntries(data) ==
    IF data = <<>> THEN <<>>
    ELSE LET e == Head(data)
         IN  IF IsNan(e.value) \/ LtZero(e.value)
             THEN ValidEntries(Tail(data))
             ELSE <<[name |-> e.name, val |-> e.value.v]>> \o ValidEntries(Tail(data))

\* one step of a stable descending sort: e goes after every entry that is >= e
RECURSIVE InsertDesc(_, _)
InsertDesc(e, s) ==
    IF s = <<>> THEN <<e>>
    ELSE IF Head(s).val >= e.val THEN <<Head(s)>> \o InsertDesc(e, Tail(s))
         ELSE <<e>> \o s

\* the items as the dict holds them, without sorted()
InsertionOrder(s) == s

\* sorted(filtered.items(), key=value, reverse=True): stable, ties keep insertion order
RECURSIVE SortedDesc(_)
SortedDesc(s) ==
    IF s = <<>> THEN <<>>
    ELSE InsertDesc(s[Len(s)], SortedDesc(SubSeq(s, 1, Len(s) - 1)))

TopK == 5

FirstK(s, k) == SubSeq(s, 1, Min2(k, Len(s)))

Vals(s) == [i \in 1..Len(s) |-> s[i].val]

\* the policy test without lower(): "Compute" is not recognised
IsComputePolicyCaseSensitive(include_names) ==
    /\ include_names # <<>>
    /\ \E k \in 1..Len(include_names) :
           include_names[k] \in {StrCompute, StrEngtypeCompute}

\* any(name.lower() in ['compute', 'engtype_compute'] for name in include_names)
IsComputePolicy(include_names) ==
    /\ include_names # <<>>
    /\ \E k \in 1..Len(include_names) :
           Lower(include_names[k]) \in {StrCompute, StrEngtypeCompute}

NoSummary == [overall |-> 0, top |-> <<>>]

SummarizeEngineUtil(data, include_names) ==
    IF data = <<>> THEN NoSummary
    ELSE LET filtered == ValidEntries(data)
             top == FirstK(SortedDesc(filtered), TopK)
         IN  IF filtered = <<>> THEN NoSummary
             ELSE [overall |-> IF IsComputePolicy(include_names)
                               THEN MaxSeq(Vals(filtered))
                               ELSE SumSeq(Vals(top)) \div Len(top),
                   top |-> top]

-----------------------------------------------------------------------------
(* PDHCollector.collect and HardwareMonitor.get_gpu_usage *)

\* collect(): {} when the collector is unavailable or the collection raises,
\* else the filtered readings
Collect(available, failed, data, include_names, exclude_contains) ==
    IF ~available THEN <<>>
    ELSE IF failed THEN <<>>
    ELSE FilterData(data, include_names, exclude_contains)

ClampTop(top) == [i \in 1..Len(top) |-> [name |-> top[i].name, val |-> Clamp(top[i].val)]]

GetGpuUsage(available, failed, data) ==
    IF ~available THEN NoSummary
    ELSE LET gpu_data == Collect(available, failed, data, GpuIncludeNames, GpuExcludeContains)
             s == SummarizeEngineUtil(gpu_data, <<KwCompute>>)
         IN  IF gpu_data = <<>> THEN NoSummary
             ELSE [overall |-> Clamp(s.overall), top |-> ClampTop(s.top)]

\* the NPU figures of update_averages and display_metrics:
\* summarize_engine_util(npu_collector.collect())
NpuSummary(available, failed, data) ==
    SummarizeEngineUtil(Collect(available, failed, data, NpuIncludeNames, NpuExcludeContains),
                        <<>>)

-----------------------------------------------------------------------------
(* Inputs of the aggregation layer *)

LblCompute0 == <<"C","o","m","p","u","t","e",":","0">>

LblCompute1 == <<"C","o","m","p","u","t","e",":","1">>

LblCopy0 == <<"C","o","p","y",":","0">>

LblUpperCompute2 == <<"C","O","M","P","U","T","E",":","2">>

LblCopyCompute == <<"c","o","p","y","_","C","o","m","p","u","t","e">>

LblCompute3 == <<"C","o","m","p","u","t","e",":","3">>

LblCompute4 == <<"C","o","m","p","u","t","e",":","4">>

LblCompute5 == <<"C","o","m","p","u","t","e",":","5">>

Lbl3D0 == <<"3","D",":","0">>

LblVideo0 == <<"V","I","D","E","O",":","0">>

\* the instances a counter pattern can expand to, in expansion order, each with
\* the readings it can show
EngineChoices ==
    << [name |-> LblCompute0, values |-> {NaN, Num(P(-1)), Num(P(12)), Num(P(150))}],
       [name |-> LblCompute1, values |-> {NaN, Num(P(45))}],
       [name |-> LblCopy0, values |-> {Num(P(99))}],
       [name |-> LblUpperCompute2, values |-> {Num(P(45))}],
       [name |-> LblCopyCompute, values |-> {Num(P(70))}],
       [name |-> LblCompute3, values |-> {Num(P(60))}],
       [name |-> LblCompute4, values |-> {Num(P(30))}],
       [name |-> LblCompute5, values |-> {Num(P(5))}],
       [name |-> Lbl3D0, values |-> {Num(P(88))}],
       [name |-> LblVideo0, values |-> {Num(P(20))}] >>

MaxEngines == 8

RECURSIVE RawMapsUpTo(_)
RawMapsUpTo(k) ==
    IF k = 0 THEN {<<>>}
    ELSE LET c == EngineChoices[k]
             opts == {<<>>} \cup {<<[name |-> c.name, value |-> v]>> : v \in c.values}
         IN  {m \o o : m \in RawMapsUpTo(k - 1), o \in opts}

RawMaps == RawMapsUpTo(Min2(MaxEngines, Len(EngineChoices)))

IncludeChoices == {<<>>, <<KwCompute>>, <<KwCopy>>}

\* summary.path: which call produced it
\*   "gpu"    get_gpu_usage()
\*   "npu"    summarize_engine_util(npu_collector.collect())
\*   "direct" summarize_engine_util(raw, include)
\* summary.failed: the collection of that call raised
NoCall == [path |-> "none", include |-> <<>>, failed |-> FALSE, overall |-> 0, top |-> <<>>]

Called(path, s, include_names, failed) ==
    [path |-> path, include |-> include_names, failed |-> failed,
     overall |-> s.overall, top |-> s.top]

SameCall(a, b) == a.path = b.path /\ a.include = b.include /\ a.failed = b.failed

-----------------------------------------------------------------------------
(* The aggregation layer applied to one collection *)

AggIdle ==
    /\ raw = <<>>
    /\ gpu_available = FALSE
    /\ npu_available = FALSE
    /\ summary = NoCall
    /\ repeated = FALSE

MonoIdle == mono_in = <<>> /\ mono_out = [method |-> "none"]

BlendIdle == blend = [source |-> "none"]

\* no loop has been started
LoopIdle ==
    /\ hm = [loop |-> "idle", ticks |-> 0, last_disk_io |-> FALSE, last_net_io |-> FALSE]
    /\ fm = [monitoring_active |-> FALSE, thread |-> "idle", results |-> 0, errors |-> 0]

NoReader == [pc |-> "idle"]

\* no monitor object has been made
ThrIdle ==
    /\ mon = [kind |-> "none"]
    /\ loops = <<>>
    /\ activity_history = <<>>
    /\ reader = NoReader

\* no collector has been constructed
ColIdle == pdh = [built |-> "none"]

\* no estimator has been applied to given windows
ApplyIdle == est_in = <<>> /\ est_out = [method |-> "none"]

IdleExceptAgg == RaIdle /\ EstIdle /\ MonoIdle /\ BlendIdle /\ LoopIdle /\ ThrIdle /\ ColIdle /\ ApplyIdle

IdleExceptRa == AggIdle /\ EstIdle /\ MonoIdle /\ BlendIdle /\ LoopIdle /\ ThrIdle /\ ColIdle /\ ApplyIdle

IdleExceptEst == AggIdle /\ RaIdle /\ MonoIdle /\ BlendIdle /\ LoopIdle /\ ThrIdle /\ ColIdle /\ ApplyIdle

IdleExceptMono == AggIdle /\ RaIdle /\ EstIdle /\ BlendIdle /\ LoopIdle /\ ThrIdle /\ ColIdle /\ ApplyIdle

IdleExceptBlend == AggIdle /\ RaIdle /\ EstIdle /\ MonoIdle /\ LoopIdle /\ ThrIdle /\ ColIdle /\ ApplyIdle

IdleExceptLoop == AggIdle /\ RaIdle /\ EstIdle /\ MonoIdle /\ BlendIdle /\ ThrIdle /\ ColIdle /\ ApplyIdle

IdleExceptThr == AggIdle /\ RaIdle /\ EstIdle /\ MonoIdle /\ BlendIdle /\ LoopIdle /\ ColIdle /\ ApplyIdle

IdleExceptCol == AggIdle /\ RaIdle /\ EstIdle /\ MonoIdle /\ BlendIdle /\ LoopIdle /\ ThrIdle /\ ApplyIdle

IdleExceptApply ==
    AggIdle /\ RaIdle /\ EstIdle /\ MonoIdle /\ BlendIdle /\ LoopIdle /\ ThrIdle /\ ColIdle

InitSummarize ==
    /\ raw \in RawMaps
    /\ gpu_available \in BOOLEAN
    /\ npu_available \in BOOLEAN
    /\ summary = NoCall
    /\ repeated = FALSE
    /\ IdleExceptAgg

GetGpuUsageCall ==
    /\ \E failed \in BOOLEAN :
           summary' = Called("gpu", GetGpuUsage(gpu_available, failed, raw), <<KwCompute>>, failed)
    /\ repeated' = SameCall(summary, summary')
    /\ UNCHANGED <<raw, gpu_available, npu_available>>
    /\ UNCHANGED notAggVars

NpuSummaryCall ==
    /\ \E failed \in BOOLEAN :
           summary' = Called("npu", NpuSummary(npu_available, failed, raw), <<>>, failed)
    /\ repeated' = SameCall(summary, summary')
    /\ UNCHANGED <<raw, gpu_available, npu_available>>
    /\ UNCHANGED notAggVars

\* a summarize that deletes the invalid entries from its argument
SummarizeCallInPlace ==
    /\ \E inc \in IncludeChoices :
           summary' = Called("direct", SummarizeEngineUtil(raw, inc), inc, FALSE)
    /\ repeated' = SameCall(summary, summary')
    /\ raw' = [i \in 1..Len(ValidEntries(raw)) |->
                  [name |-> ValidEntries(raw)[i].name, value |-> Num(ValidEntries(raw)[i].val)]]
    /\ UNCHANGED <<gpu_available, npu_available>>
    /\ UNCHANGED notAggVars

\* summarize_engine_util builds a new dict and a new sorted list: the argument
\* is only read
SummarizeCall ==
    /\ \E inc \in IncludeChoices :
           summary' = Called("direct", SummarizeEngineUtil(raw, inc), inc, FALSE)
    /\ repeated' = SameCall(summary, summary')
    /\ UNCHANGED <<raw, gpu_available, npu_available>>
    /\ UNCHANGED notAggVars

NextSummarize ==
    \/ GetGpuUsageCall
    \/ NpuSummaryCall
    \/ SummarizeCall

SpecSummarize == InitSummarize /\ [][NextSummarize]_vars

-----------------------------------------------------------------------------
(* Claims about the aggregation layer *)

ValidIdx == {i \in 1..Len(raw) : ~raw[i].value.nan /\ raw[i].value.v >= 0}

LabelPasses(name, include_names, exclude_contains) ==
    /\ include_names = <<>>
       \/ \E k \in 1..Len(include_names) : Contains(Lower(include_names[k]), Lower(name))
    /\ exclude_contains = <<>>
       \/ \A k \in 1..Len(exclude_contains) : ~Contains(Lower(exclude_contains[k]), Lower(name))

GpuKeptIdx == {i \in ValidIdx : LabelPasses(raw[i].name, GpuIncludeNames, GpuExcludeContains)}

InPercentRange(x) == 0 <= x /\ x <= P(100)

SummaryInRange(s) ==
    /\ InPercentRange(s.overall)
    /\ \A i \in 1..Len(s.top) : InPercentRange(s.top[i].val)

IsZeroSummary(s) == s.overall = 0 /\ s.top = <<>>

\* C1: every summary that reaches a caller by the GPU path or by the NPU path
\* has its overall value and every top-k value within [0,100].
C1_SummaryInRange ==
    summary.path \in {"gpu", "npu"} => SummaryInRange(summary)

\* C2: when the filtered set is empty (empty map, only NaN or negative values,
\* or every label rejected by the keyword rules) the summary is exactly (0.0, []).
C2_EmptyFilteredGivesZero ==
    /\ (summary.path = "gpu" /\ GpuKeptIdx = {}) => IsZeroSummary(summary)
    /\ (summary.path \in {"npu", "direct"} /\ ValidIdx = {}) => IsZeroSummary(summary)

C2_Witness ==
    /\ summary.path = "gpu"
    /\ gpu_available
    /\ ~summary.failed
    /\ GpuKeptIdx = {}
    /\ \E i \in 1..Len(raw) : raw[i].value.nan
    /\ \E i \in 1..Len(raw) : ~raw[i].value.nan /\ raw[i].value.v < 0
    /\ \E i \in ValidIdx : ~LabelPasses(raw[i].name, GpuIncludeNames, GpuExcludeContains)

ScenarioB ==
    << [name |-> LblCompute0, value |-> Num(P(12))],
       [name |-> LblCompute1, value |-> Num(P(45))],
       [name |-> LblCopy0, value |-> Num(P(99))] >>

ScenarioBTop ==
    << [name |-> LblCompute1, val |-> P(45)], [name |-> LblCompute0, val |-> P(12)] >>

IsMaxOf(x, idx) ==
    /\ \E i \in idx : raw[i].value.v = x
    /\ \A i \in idx : raw[i].value.v <= x

IsMeanOfTop(s) ==
    /\ Len(s.top) = Min2(5, Cardinality(ValidIdx))
    /\ s.overall * Len(s.top) = SumSeq(Vals(s.top))

\* C3: with include = ["Compute"] the overall value is the maximum of all
\* filtered values, otherwise it is the arithmetic mean of the top five; the
\* map {Compute:0=12, Compute:1=45, Copy:0=99} filtered by include Compute and
\* exclude Copy gives overall 45 and top5 [(Compute:1,45), (Compute:0,12)].
C3_OverallPolicy ==
    /\ (summary.path = "direct" /\ ValidIdx # {}) =>
           IF summary.include = <<KwCompute>>
           THEN IsMaxOf(summary.overall, ValidIdx)
           ELSE IsMeanOfTop(summary)
    /\ (summary.path = "npu" /\ npu_available /\ ~summary.failed /\ ValidIdx # {}) =>
           IsMeanOfTop(summary)
    /\ (summary.path = "gpu" /\ gpu_available /\ ~summary.failed /\ GpuKeptIdx # {}) =>
           \E i \in GpuKeptIdx :
               /\ IsMaxOf(raw[i].value.v, GpuKeptIdx)
               /\ summary.overall = Min2(P(100), raw[i].value.v)
    /\ (summary.path = "gpu" /\ gpu_available /\ ~summary.failed /\ raw = ScenarioB) =>
           summary.overall = P(45) /\ summary.top = ScenarioBTop

C3_Witness ==
    /\ summary.path = "gpu"
    /\ raw = ScenarioB
    /\ summary.overall = P(45)
    /\ summary.top = ScenarioBTop

-----------------------------------------------------------------------------
(* One RunningAverage under any sequence of add calls *)

MaxAdds == 5

AddArgs == {None, Some(0), Some(P(25)), Some(P(100)), Some(7)}

InitAverage ==
    /\ ra = RaNew
    /\ ra_args = <<>>
    /\ IdleExceptRa

AddCall ==
    /\ Len(ra_args) < MaxAdds
    /\ \E value \in AddArgs :
           /\ ra' = RaAdd(ra, value)
           /\ ra_args' = Append(ra_args, value)
    /\ UNCHANGED notRaVars

NextAverage == AddCall

SpecAverage == InitAverage /\ [][NextAverage]_vars

RECURSIVE SumOfAdded(_)
SumOfAdded(args) ==
    IF args = <<>> THEN 0
    ELSE (IF Head(args).none THEN 0 ELSE Head(args).v) + SumOfAdded(Tail(args))

NumAdded(args) == Cardinality({i \in 1..Len(args) : ~args[i].none})

\* C5: average() is 0 while no sample has been added, and otherwise the
\* arithmetic mean of exactly the non-None values added; add(None) changes
\* neither total nor count, every other add increases count by exactly 1, and
\* count never decreases.
C5_RunningAverage ==
    /\ [](/\ ra.count = NumAdded(ra_args)
          /\ NumAdded(ra_args) = 0 => RaAverage(ra).n = 0
          /\ NumAdded(ra_args) > 0 =>
                 RaAverage(ra).n * NumAdded(ra_args) = SumOfAdded(ra_args) * RaAverage(ra).d)
    /\ [][ /\ ra.count' >= ra.count
           /\ ra_args' # ra_args =>
                  IF ra_args'[Len(ra_args')].none
                  THEN ra' = ra
                  ELSE /\ ra.count' = ra.count + 1
                       /\ ra.total' = ra.total + ra_args'[Len(ra_args')].v ]_vars

C5_Witness ==
    /\ Len(ra_args) = 5
    /\ ra.count = 3
    /\ ra_args[1].none
    /\ ra_args[4].none
    /\ ra.total = P(125) + 7

-----------------------------------------------------------------------------
(* The CPU-pattern estimators over the ticks of a session *)

MaxSamples == 22

InitEstimator ==
    /\ workload \in Workloads
    /\ n_idle = 0
    /\ n_active = 0
    /\ cpu_baseline = <<>>
    /\ cpu_during_ai = <<>>
    /\ ai_process_count = <<>>
    /\ npu_estimate = NoEstimate
    /\ off_baseline = <<>>
    /\ off_during_ai = <<>>
    /\ off_estimate = NoEstimate
    /\ simple_baseline = <<>>
    /\ simple_ai = <<>>
    /\ simple_estimate = NoEstimate
    /\ IdleExceptEst

\* one tick with no AI process detected: NPUMonitor.collect_metrics (update_baseline,
\* then estimate), the loop of ai_activity_detector (update_baseline_cpu, then
\* estimate_npu_offload) and SimpleNPUMonitor (estimate_npu_from_cpu(cpu, False))
IdleTick ==
    /\ n_idle < MaxSamples
    /\ LET cpu_percent == CpuReading(workload.idle, workload.amp, IdlePattern, n_idle)
       IN  /\ cpu_baseline' = DequeAppend(cpu_baseline, cpu_percent, HistorySize)
           /\ off_baseline' = DequeAppend(off_baseline, cpu_percent, OffloadHistorySize)
           /\ simple_baseline' = DequeAppend(simple_baseline, cpu_percent, SimpleHistorySize)
    /\ n_idle' = n_idle + 1
    /\ npu_estimate' = EstimateNpuUsage(cpu_baseline', cpu_during_ai, ai_process_count)
    /\ off_estimate' = EstimateNpuOffload(off_baseline', off_during_ai)
    /\ simple_estimate' = EstimateNpuFromCpu(simple_baseline', simple_ai)
    /\ UNCHANGED <<workload, n_active, cpu_during_ai, ai_process_count, off_during_ai, simple_ai>>
    /\ UNCHANGED notEstVars

\* one tick with AI processes detected
ActiveTick ==
    /\ n_active < MaxSamples
    /\ LET cpu_percent == CpuReading(workload.active, workload.amp, ActivePattern, n_active)
       IN  /\ cpu_during_ai' = DequeAppend(cpu_during_ai, cpu_percent, HistorySize)
           /\ ai_process_count' = DequeAppend(ai_process_count, workload.procs, HistorySize)
           /\ off_during_ai' = DequeAppend(off_during_ai, cpu_percent, OffloadHistorySize)
           /\ simple_ai' = DequeAppend(simple_ai, cpu_percent, SimpleHistorySize)
    /\ n_active' = n_active + 1
    /\ npu_estimate' = EstimateNpuUsage(cpu_baseline, cpu_during_ai', ai_process_count')
    /\ off_estimate' = EstimateNpuOffload(off_baseline, off_during_ai')
    /\ simple_estimate' = EstimateNpuFromCpu(simple_baseline, simple_ai')
    /\ UNCHANGED <<workload, n_idle, cpu_baseline, off_baseline, simple_baseline>>
    /\ UNCHANGED notEstVars

NextEstimator ==
    \/ IdleTick
    \/ ActiveTick

SpecEstimator == InitEstimator /\ [][NextEstimator]_vars

\* max(0, (mean(baseline) - mean(active)) / mean(baseline)) as a rational, taken
\* as 0 where the baseline mean is 0
Efficiency(baseline, active) ==
    IF SumSeq(baseline) = 0 THEN R(0, 1)
    ELSE R(Max2(0, SumSeq(baseline) * Len(active) - SumSeq(active) * Len(baseline)),
           SumSeq(baseline) * Len(active))

\* x is within 0.1 of tenths / 10
About(x, tenths) == RLt(R(tenths - 1, 10), x) /\ RLt(x, R(tenths + 1, 10))

ScenarioABaseline == <<50, 52, 48, 51, 49, 50, 53, 47, 50, 51>>

ScenarioAActive == <<30, 32, 28, 31, 29>>

\* C6: both estimators that work on the two CPU windows return no estimate
\* whenever the baseline window holds fewer than 10 samples or the active window
\* fewer than 5.  NPUUsageEstimator returns an estimate exactly when the windows
\* hold at least 10 and 5 samples and the baseline mean is positive;
\* SimpleNPUMonitor returns one exactly when its windows hold at least 20 and 10
\* samples and the baseline mean is positive.
C6_InsufficientData ==
    (n_idle + n_active > 0) =>
        /\ (Len(cpu_baseline) < 10 \/ Len(cpu_during_ai) < 5) => npu_estimate.kind = "none"
        /\ (Len(simple_baseline) < 10 \/ Len(simple_ai) < 5) => simple_estimate.kind = "none"
        /\ npu_estimate.kind = "estimate" <=>
               /\ Len(cpu_baseline) >= 10
               /\ Len(cpu_during_ai) >= 5
               /\ SumSeq(cpu_baseline) > 0
        /\ simple_estimate.kind = "estimate" <=>
               /\ Len(simple_baseline) >= 20
               /\ Len(simple_ai) >= 10
               /\ SumSeq(simple_baseline) > 0

\* the minimums are just met: NPUUsageEstimator estimates, SimpleNPUMonitor does not
C6_Witness ==
    /\ Len(cpu_baseline) = 10
    /\ Len(cpu_during_ai) = 5
    /\ npu_estimate.kind = "estimate"
    /\ Len(simple_baseline) = 10
    /\ Len(simple_ai) = 5
    /\ simple_estimate.kind = "none"

\* C6 as stated: no estimate below 10 and 5 samples, and an estimate as soon as
\* both windows hold 10 and 5 samples
C6_AsStated ==
    (n_idle + n_active > 0) =>
        /\ (Len(cpu_baseline) < 10 \/ Len(cpu_during_ai) < 5) => npu_estimate.kind = "none"
        /\ (Len(simple_baseline) < 10 \/ Len(simple_ai) < 5) => simple_estimate.kind = "none"
        /\ (Len(cpu_baseline) >= 10 /\ Len(cpu_during_ai) >= 5) =>
               npu_estimate.kind = "estimate"
        /\ (Len(simple_baseline) >= 10 /\ Len(simple_ai) >= 5) =>
               simple_estimate.kind = "estimate"

\* C7: with e the efficiency of the two windows, an estimate of
\* npu_monitor.NPUUsageEstimator is min(100, e * 150) with confidence
\* min(100, e * 200) > 0 when e > 0.15, and 0 with confidence 0 otherwise; an
\* estimate of ai_activity_detector.NPUUsageEstimator is min(100, e * 100) when
\* e > 0.2 and 0 otherwise.  For the windows of Scenario A the first is about 60.2
\* with confidence about 80.2 and the second about 40.1.
C7_EstimateFormula ==
    /\ npu_estimate.kind = "estimate" =>
           LET e == Efficiency(cpu_baseline, cpu_during_ai)
           IN  IF RLt(R(15, 100), e)
               THEN /\ REq(npu_estimate.estimate, RMin(R(100, 1), RMul(e, 150)))
                    /\ REq(npu_estimate.confidence, RMin(R(100, 1), RMul(e, 200)))
                    /\ RLt(R(0, 1), npu_estimate.confidence)
               ELSE /\ REq(npu_estimate.estimate, R(0, 1))
                    /\ REq(npu_estimate.confidence, R(0, 1))
    /\ off_estimate.kind = "estimate" =>
           LET e == Efficiency(off_baseline, off_during_ai)
           IN  IF RLt(R(2, 10), e)
               THEN REq(off_estimate.estimate, RMin(R(100, 1), RMul(e, 100)))
               ELSE REq(off_estimate.estimate, R(0, 1))
    /\ (cpu_baseline = ScenarioABaseline /\ cpu_during_ai = ScenarioAActive) =>
           /\ npu_estimate.kind = "estimate"
           /\ About(npu_estimate.estimate, 602)
           /\ About(npu_estimate.confidence, 802)
    /\ (off_baseline = ScenarioABaseline /\ off_during_ai = ScenarioAActive) =>
           /\ off_estimate.kind = "estimate"
           /\ About(off_estimate.estimate, 401)

\* Scenario A has been sampled and estimated
C7_Witness ==
    /\ cpu_baseline = ScenarioABaseline
    /\ cpu_during_ai = ScenarioAActive
    /\ npu_estimate.kind = "estimate"
    /\ About(npu_estimate.estimate, 602)
    /\ off_estimate.kind = "estimate"

\* C7 as stated: in both estimators an efficiency above 0.2 gives
\* min(100, e * 150) and a positive confidence, about 60.2 for Scenario A
C7_AsStated ==
    /\ npu_estimate.kind = "estimate" =>
           LET e == Efficiency(cpu_baseline, cpu_during_ai)
           IN  RLt(R(2, 10), e) =>
                   /\ REq(npu_estimate.estimate, RMin(R(100, 1), RMul(e, 150)))
                   /\ RLt(R(0, 1), npu_estimate.confidence)
    /\ off_estimate.kind = "estimate" =>
           LET e == Efficiency(off_baseline, off_during_ai)
           IN  RLt(R(2, 10), e) =>
                   /\ REq(off_estimate.estimate, RMin(R(100, 1), RMul(e, 150)))
                   /\ "confidence" \in DOMAIN off_estimate
    /\ (cpu_baseline = ScenarioABaseline /\ cpu_during_ai = ScenarioAActive) =>
           npu_estimate.kind = "estimate" /\ About(npu_estimate.estimate, 602)
    /\ (off_baseline = ScenarioABaseline /\ off_during_ai = ScenarioAActive) =>
           off_estimate.kind = "estimate" /\ About(off_estimate.estimate, 602)

-----------------------------------------------------------------------------
(* Two window contents given to the same estimator *)

\* the sizes <<baseline, active>> of the windows compared
WindowShapes == {<<9, 5>>, <<10, 5>>, <<20, 10>>, <<25, 10>>, <<0, 30>>, <<5, 30>>}

WindowParams ==
    [idle : {0, 20, 50}, active : {10, 30, 45}, amp : {0, 1}, shape : WindowShapes]

\* the readings of a session with the load levels of w: w.shape[1] ticks without
\* AI activity, then w.shape[2] ticks with one AI process of 5% CPU
WindowsOf(w) ==
    LET baseline == [k \in 1..w.shape[1] |-> CpuReading(w.idle, w.amp, IdlePattern, k - 1)]
        active == [k \in 1..w.shape[2] |-> CpuReading(w.active, w.amp, ActivePattern, k - 1)]
    IN  [baseline |-> baseline,
         active |-> active,
         process_count |-> [k \in 1..w.shape[2] |-> 1],
         history |-> [k \in 1..(w.shape[1] + w.shape[2]) |->
                         IF k <= w.shape[1]
                         THEN [cpu |-> baseline[k], ai_active |-> FALSE]
                         ELSE [cpu |-> active[k - w.shape[1]], ai_active |-> TRUE]],
         ai_peak_cpu |-> [k \in 1..w.shape[2] |-> 5]]

InitMonotone ==
    /\ mono_in \in {<<WindowsOf(a), WindowsOf(b)>> : a \in WindowParams, b \in WindowParams}
    /\ mono_out = [method |-> "none"]
    /\ IdleExceptMono

\* NPUUsageEstimator.estimate_npu_usage on each of the two window contents
CompareNpuMonitor ==
    /\ mono_out' = [method |-> "npu_monitor",
                    first |-> EstimateNpuUsage(mono_in[1].baseline, mono_in[1].active,
                                               mono_in[1].process_count),
                    second |-> EstimateNpuUsage(mono_in[2].baseline, mono_in[2].active,
                                                mono_in[2].process_count)]
    /\ UNCHANGED mono_in
    /\ UNCHANGED notMonoVars

\* SmartNPUEstimator.estimate_npu_usage on each of the two window contents
CompareEnhanced ==
    /\ mono_out' = [method |-> "enhanced",
                    first |-> SmartEstimateNpuUsage(mono_in[1].history, mono_in[1].baseline,
                                                    mono_in[1].ai_peak_cpu),
                    second |-> SmartEstimateNpuUsage(mono_in[2].history, mono_in[2].baseline,
                                                     mono_in[2].ai_peak_cpu)]
    /\ UNCHANGED mono_in
    /\ UNCHANGED notMonoVars

NextMonotone ==
    \/ CompareNpuMonitor
    \/ CompareEnhanced

SpecMonotone == InitMonotone /\ [][NextMonotone]_vars

\* the efficiency SmartNPUEstimator sees in the last 30 entries of a history
RecentEfficiency(history) ==
    LET recent == IF Len(history) <= 30 THEN history
                  ELSE SubSeq(history, Len(history) - 29, Len(history))
        act == SelectSeq(recent, LAMBDA h : h.ai_active)
        inact == SelectSeq(recent, LAMBDA h : ~h.ai_active)
    IN  Efficiency([k \in 1..Len(inact) |-> inact[k].cpu], [k \in 1..Len(act) |-> act[k].cpu])

\* C8: of two window contents with sufficient samples whose efficiencies are
\* threshold < e1 <= e2, the second gets at least the estimate of the first:
\* in NPUUsageEstimator (threshold 0.15, scale 150) and in the advanced analysis
\* of SmartNPUEstimator (threshold 0.1, scale 200), in either order of the two.
C8_MonotoneInEfficiency ==
    /\ (/\ mono_out.method = "npu_monitor"
        /\ mono_out.first.kind = "estimate"
        /\ mono_out.second.kind = "estimate") =>
           LET e1 == Efficiency(mono_in[1].baseline, mono_in[1].active)
               e2 == Efficiency(mono_in[2].baseline, mono_in[2].active)
           IN  (RLt(R(15, 100), e1) /\ RLe(e1, e2)) =>
                   RLe(mono_out.first.estimate, mono_out.second.estimate)
    /\ (/\ mono_out.method = "enhanced"
        /\ mono_out.first.kind = "estimate"
        /\ mono_out.second.kind = "estimate"
        /\ mono_out.first.method = "advanced_analysis"
        /\ mono_out.second.method = "advanced_analysis") =>
           LET e1 == RecentEfficiency(mono_in[1].history)
               e2 == RecentEfficiency(mono_in[2].history)
           IN  (RLt(R(1, 10), e1) /\ RLe(e1, e2)) =>
                   RLe(mono_out.first.estimate, mono_out.second.estimate)

\* two windows of different load levels, the less efficient one with the larger
\* absolute drop, both estimated below the cap
C8_Witness ==
    /\ mono_out.method = "npu_monitor"
    /\ mono_out.first.kind = "estimate"
    /\ mono_out.second.kind = "estimate"
    /\ RLt(R(15, 100), Efficiency(mono_in[1].baseline, mono_in[1].active))
    /\ RLt(Efficiency(mono_in[1].baseline, mono_in[1].active),
           Efficiency(mono_in[2].baseline, mono_in[2].active))
    /\ SumSeq(mono_in[1].baseline) \div Len(mono_in[1].baseline) >
           SumSeq(mono_in[2].baseline) \div Len(mono_in[2].baseline)
    /\ RLt(mono_out.first.estimate, mono_out.second.estimate)
    /\ RLt(mono_out.second.estimate, R(100, 1))

-----------------------------------------------------------------------------
(* The blended estimators over the signals of a tick *)

\* the AI processes a tick can find: cpu_percent above 1.0 (it exceeds 100 on
\* several cores), ai_confidence one of the sums of _calculate_ai_confidence
ProcChoices ==
    {[cpu_percent |-> P(2), ai_confidence |-> 0],
     [cpu_percent |-> P(30), ai_confidence |-> 6],
     [cpu_percent |-> P(15), ai_confidence |-> 10],
     [cpu_percent |-> P(400), ai_confidence |-> 10]}

AiProcessLists ==
    {<<>>} \cup {<<a>> : a \in ProcChoices} \cup {<<a, b>> : a \in ProcChoices, b \in ProcChoices}

CpuPercents == {0, P(5), P(50)}

\* a formatted counter value of a GPU compute engine
GpuActivities == {0, P(4), P(60), P(150)}

CpuUtilities == {0, P(10), P(50), P(120)}

EtwEventCounts == {0, 3, 8}

InitBlend == blend = [source |-> "none"] /\ IdleExceptBlend

\* one estimate_npu_usage_indirect() of FinalNPUMonitor
FinalEstimateTick ==
    /\ \E ai_processes \in AiProcessLists, cpu_raises \in BOOLEAN, cpu_percent \in CpuPercents,
          gpu_activity \in GpuActivities, power_change \in BOOLEAN :
           blend' = EstimateNpuUsageIndirect(ai_processes, cpu_raises, cpu_percent,
                                             gpu_activity, power_change)
    /\ UNCHANGED notBlendVars

\* one estimate_npu_utilization() in a cycle of UltimateNPUMonitor
UltimateEstimateTick ==
    /\ \E ai_processes \in AiProcessLists, gpu_compute_avg \in GpuActivities,
          cpu_utility \in CpuUtilities, etw_events \in EtwEventCounts :
           blend' = EstimateNpuUtilization(gpu_compute_avg, cpu_utility, ai_processes,
                                           etw_events)
    /\ UNCHANGED notBlendVars

NextBlend ==
    \/ FinalEstimateTick
    \/ UltimateEstimateTick

SpecBlend == InitBlend /\ [][NextBlend]_vars

ConfidenceLabels == {"low", "low-medium", "medium", "medium-high", "high"}

\* C9: every result of the two blended estimators has its estimate in [0,100],
\* also when the CPU sampling raised, and a confidence that is one of five labels,
\* not a number.  In UltimateNPUMonitor the contributions are at most 50 (ETW),
\* 30 (AI processes), 20 (GPU compute) and 15 (efficiency bonus) and the estimate
\* is min(100, their sum).  In FinalNPUMonitor the AI-process contribution is at
\* most 100, the efficiency bonus at most 40, the power contribution at most 10
\* and the GPU contribution is half the sampled value without a cap of its own;
\* the estimate is min(100, sum of the contributions made before a raise).
C9_BlendedInRange ==
    blend.source # "none" =>
        /\ 0 <= blend.estimate /\ blend.estimate <= P(100)
        /\ blend.confidence.type = "str"
        /\ blend.confidence.s \in ConfidenceLabels
        /\ blend.source = "ultimate" =>
               /\ 0 <= blend.etw_part /\ blend.etw_part <= P(50)
               /\ 0 <= blend.ai_part /\ blend.ai_part <= P(30)
               /\ 0 <= blend.gpu_part /\ blend.gpu_part <= P(20)
               /\ 0 <= blend.efficiency_part /\ blend.efficiency_part <= P(15)
               /\ blend.estimate = Min2(P(100), blend.etw_part + blend.ai_part
                                                    + blend.gpu_part + blend.efficiency_part)
        /\ blend.source = "final" =>
               /\ 0 <= blend.ai_part /\ blend.ai_part <= P(100)
               /\ 0 <= blend.efficiency_part /\ blend.efficiency_part <= P(40)
               /\ 0 <= blend.gpu_part
               /\ 0 <= blend.power_part /\ blend.power_part <= P(10)
               /\ blend.estimate = Min2(P(100), blend.ai_part + blend.efficiency_part
                                                    + blend.gpu_part + blend.power_part)
               /\ blend.raised => blend.estimate = blend.ai_part

\* the sum of the contributions of FinalNPUMonitor exceeds 100, with a GPU
\* contribution of 75, and the estimate returned is 100
C9_Witness ==
    /\ blend.source = "final"
    /\ ~blend.raised
    /\ blend.gpu_part = P(75)
    /\ blend.ai_part + blend.efficiency_part + blend.gpu_part + blend.power_part > P(100)
    /\ blend.estimate = P(100)
    /\ blend.confidence = Str("high")

\* C9 as stated: estimate in [0,100] and confidence a number in [0,100], the
\* estimate being the clamped sum of the contributions on every path
C9_AsStated ==
    blend.source # "none" =>
        /\ 0 <= blend.estimate /\ blend.estimate <= P(100)
        /\ blend.confidence.type = "float"
        /\ blend.source = "ultimate" =>
               blend.estimate = Min2(P(100), blend.etw_part + blend.ai_part
                                                 + blend.gpu_part + blend.efficiency_part)
        /\ blend.source = "final" =>
               blend.estimate = Min2(P(100), blend.ai_part + blend.efficiency_part
                                                 + blend.gpu_part + blend.power_part)

-----------------------------------------------------------------------------
(* The monitor loops: HardwareMonitor.start_monitoring (the main thread, which
   catches KeyboardInterrupt only) and FinalNPUMonitor's monitoring_loop (a
   thread that runs while monitoring_active and catches Exception per tick) *)

MaxTicks == 5

\* where SystemCollector.collect can raise: psutil.cpu_percent, virtual_memory,
\* disk_io_counters, net_io_counters; "display" is an exception in
\* update_averages or display_metrics
TickFaults == {"none", "cpu", "memory", "disk", "net", "display"}

InitMonitor ==
    /\ hm = [loop |-> "running", ticks |-> 0, last_disk_io |-> FALSE, last_net_io |-> FALSE]
    /\ fm = [monitoring_active |-> TRUE, thread |-> "running", results |-> 0, errors |-> 0]
    /\ IdleExceptLoop

\* one pass of the while True of start_monitoring: collect_and_display_metrics().
\* A failure inside a PDHCollector.collect is caught there and gives {}; any other
\* exception propagates through collect_and_display_metrics and start_monitoring
\* (SystemCollector.collect has assigned last_disk_io before net_io_counters runs).
HmTick ==
    /\ hm.loop = "running"
    /\ hm.ticks < MaxTicks
    /\ \E fault \in TickFaults :
           hm' = [loop |-> IF fault = "none" THEN "running" ELSE "raised",
                  ticks |-> IF fault = "none" THEN hm.ticks + 1 ELSE hm.ticks,
                  last_disk_io |-> IF fault \in {"none", "net", "display"} THEN TRUE
                                   ELSE hm.last_disk_io,
                  last_net_io |-> IF fault \in {"none", "display"} THEN TRUE
                                  ELSE hm.last_net_io]
    /\ UNCHANGED fm
    /\ UNCHANGED notLoopVars

\* Ctrl+C: except KeyboardInterrupt: pass
HmKeyboardInterrupt ==
    /\ hm.loop = "running"
    /\ hm' = [hm EXCEPT !.loop = "interrupted"]
    /\ UNCHANGED fm
    /\ UNCHANGED notLoopVars

\* one pass of monitoring_loop's while: the estimate, the GPU sample and the
\* result, or the except branch when any of them raised
FmTick ==
    /\ fm.thread = "running"
    /\ fm.monitoring_active
    /\ fm.results + fm.errors < MaxTicks
    /\ \E raised \in BOOLEAN :
           fm' = IF raised THEN [fm EXCEPT !.errors = @ + 1]
                 ELSE [fm EXCEPT !.results = @ + 1]
    /\ UNCHANGED hm
    /\ UNCHANGED notLoopVars

\* FinalNPUMonitor.stop_monitoring
FmStopMonitoring ==
    /\ fm.monitoring_active
    /\ fm' = [fm EXCEPT !.monitoring_active = FALSE]
    /\ UNCHANGED hm
    /\ UNCHANGED notLoopVars

\* the while condition of monitoring_loop read as false
FmLoopExit ==
    /\ fm.thread = "running"
    /\ ~fm.monitoring_active
    /\ fm' = [fm EXCEPT !.thread = "exited"]
    /\ UNCHANGED hm
    /\ UNCHANGED notLoopVars

NextMonitor ==
    \/ HmTick
    \/ HmKeyboardInterrupt
    \/ FmTick
    \/ FmStopMonitoring
    \/ FmLoopExit

SpecMonitor == InitMonitor /\ [][NextMonitor]_vars

\* C10: a monitor loop that has ended was stopped explicitly (Ctrl+C in
\* HardwareMonitor, stop_monitoring in FinalNPUMonitor); no loop has ended
\* because a tick raised.
C10_LoopEndsOnlyOnStop ==
    /\ hm.loop # "running" => hm.loop = "interrupted"
    /\ fm.thread # "running" => ~fm.monitoring_active

-----------------------------------------------------------------------------
(* The loop threads of one monitor object: AIActivityDetector ("detector"),
   FinalNPUMonitor ("final"), UltimateNPUMonitor ("ultimate").

   A loop thread is at "check" (about to evaluate the while condition),
   "sampling" (inside the body, before the append), "sleeping" (inside the body,
   in time.sleep after the append or in the except branch) or has ended:
   "exited" (the while condition was false), "raised" or "interrupted"
   (UltimateNPUMonitor only, whose loop runs in the calling thread with
   try/except KeyboardInterrupt/finally and no except Exception). *)

MaxThreads == 2

MaxLoopTicks == 2

HistoryMaxlen == 60

MonitorKinds == {"detector", "final", "ultimate"}

\* what one tick of the detector finds: <<number of AI processes, DirectML active>>
TickFindings == {<<2, FALSE>>, <<0, TRUE>>}

NotStarted == [pc |-> "unborn", tick |-> 0, found |-> <<0, FALSE>>]

Alive(t) == loops[t].pc \in {"check", "sampling", "sleeping"}

InitThreads ==
    /\ mon \in [kind : MonitorKinds, monitoring : {FALSE}, monitor_thread : {0},
                caller : {"ready"}, ticks : {0}]
    /\ loops = [t \in 1..MaxThreads |-> NotStarted]
    /\ activity_history = <<>>
    /\ reader = NoReader
    /\ IdleExceptThr

\* start_monitoring of the detector and of FinalNPUMonitor: nothing when the flag
\* is set, else set it and start a new loop thread.  start_continuous_monitoring
\* of UltimateNPUMonitor sets the flag and runs the loop in the calling thread.
StartMonitoring ==
    /\ mon.caller = "ready"
    /\ IF mon.kind = "ultimate"
       THEN /\ mon.monitor_thread = 0
            /\ mon' = [mon EXCEPT !.monitoring = TRUE, !.monitor_thread = 1,
                                  !.caller = "in_loop"]
            /\ loops' = [loops EXCEPT ![1].pc = "check"]
       ELSE IF mon.monitoring
       THEN UNCHANGED <<mon, loops>>
       ELSE /\ mon.monitor_thread < MaxThreads
            /\ mon' = [mon EXCEPT !.monitoring = TRUE, !.monitor_thread = @ + 1]
            /\ loops' = [loops EXCEPT ![mon.monitor_thread + 1].pc = "check"]
    /\ UNCHANGED <<activity_history, reader>>
    /\ UNCHANGED notThrVars

\* stop_monitoring: clear the flag; the detector then joins monitor_thread with a
\* timeout of 2 s, FinalNPUMonitor returns at once.  UltimateNPUMonitor has no
\* such method: its flag is cleared by an assignment from another thread.
StopMonitoring ==
    /\ mon.kind # "none"
    /\ mon.caller \in {"ready", "in_loop"}
    /\ mon' = [mon EXCEPT !.monitoring = FALSE,
                          !.caller = IF mon.kind = "detector" /\ mon.monitor_thread # 0
                                     THEN "joining" ELSE @]
    /\ UNCHANGED <<loops, activity_history, reader>>
    /\ UNCHANGED notThrVars

\* monitor_thread.join(timeout=2.0) returns: the thread has ended, or 2 s have
\* passed (a tick sleeps 1 s and runs tasklist with a timeout of 5 s)
JoinReturns ==
    /\ mon.caller = "joining"
    /\ mon' = [mon EXCEPT !.caller = "ready"]
    /\ UNCHANGED <<loops, activity_history, reader>>
    /\ UNCHANGED notThrVars

\* a loop that starts its body without looking at the flag
LoopEnterTickIgnoresFlag(t) ==
    /\ loops[t].pc = "check"
    /\ mon.ticks < MaxLoopTicks
    /\ \E found \in TickFindings :
           loops' = [loops EXCEPT ![t] = [pc |-> "sampling", tick |-> mon.ticks + 1,
                                          found |-> found]]
    /\ mon' = [mon EXCEPT !.ticks = @ + 1]
    /\ UNCHANGED <<activity_history, reader>>
    /\ UNCHANGED notThrVars

\* the while condition is true: the body starts and samples
LoopEnterTick(t) ==
    /\ loops[t].pc = "check"
    /\ mon.monitoring
    /\ mon.ticks < MaxLoopTicks
    /\ \E found \in TickFindings :
           loops' = [loops EXCEPT ![t] = [pc |-> "sampling", tick |-> mon.ticks + 1,
                                          found |-> found]]
    /\ mon' = [mon EXCEPT !.ticks = @ + 1]
    /\ UNCHANGED <<activity_history, reader>>
    /\ UNCHANGED notThrVars

\* the snapshot (the result) of the tick is appended
LoopAppend(t) ==
    /\ loops[t].pc = "sampling"
    /\ activity_history' =
           DequeAppend(activity_history,
                       [tick |-> loops[t].tick, writer |-> t,
                        ai_process_count |-> loops[t].found[1],
                        directml_active |-> loops[t].found[2],
                        ai_processes |-> [k \in 1..loops[t].found[1] |-> loops[t].tick]],
                       HistoryMaxlen)
    /\ loops' = [loops EXCEPT ![t].pc = "sleeping"]
    /\ UNCHANGED <<mon, reader>>
    /\ UNCHANGED notThrVars

\* the sampling raises: the detector and FinalNPUMonitor print and sleep in the
\* except branch; in UltimateNPUMonitor the exception leaves the loop and the
\* finally clause clears the flag
LoopSamplingRaises(t) ==
    /\ loops[t].pc = "sampling"
    /\ IF mon.kind = "ultimate"
       THEN /\ loops' = [loops EXCEPT ![t].pc = "raised"]
            /\ mon' = [mon EXCEPT !.monitoring = FALSE, !.caller = "ready"]
       ELSE /\ loops' = [loops EXCEPT ![t].pc = "sleeping"]
            /\ UNCHANGED mon
    /\ UNCHANGED <<activity_history, reader>>
    /\ UNCHANGED notThrVars

\* time.sleep returns: back to the while condition
LoopWake(t) ==
    /\ loops[t].pc = "sleeping"
    /\ loops' = [loops EXCEPT ![t].pc = "check"]
    /\ UNCHANGED <<mon, activity_history, reader>>
    /\ UNCHANGED notThrVars

\* the while condition is false: the flag is clear, or the duration of
\* start_continuous_monitoring has passed (its finally clause clears the flag)
LoopExit(t) ==
    /\ loops[t].pc = "check"
    /\ \/ /\ ~mon.monitoring
          /\ mon' = IF mon.kind = "ultimate" THEN [mon EXCEPT !.caller = "ready"] ELSE mon
       \/ /\ mon.kind = "ultimate"
          /\ mon' = [mon EXCEPT !.monitoring = FALSE, !.caller = "ready"]
    /\ loops' = [loops EXCEPT ![t].pc = "exited"]
    /\ UNCHANGED <<activity_history, reader>>
    /\ UNCHANGED notThrVars

\* Ctrl+C while start_continuous_monitoring runs: except KeyboardInterrupt, finally
LoopKeyboardInterrupt(t) ==
    /\ mon.kind = "ultimate"
    /\ Alive(t)
    /\ loops' = [loops EXCEPT ![t].pc = "interrupted"]
    /\ mon' = [mon EXCEPT !.monitoring = FALSE, !.caller = "ready"]
    /\ UNCHANGED <<activity_history, reader>>
    /\ UNCHANGED notThrVars

LoopStep(t) ==
    \/ LoopEnterTick(t)
    \/ LoopAppend(t)
    \/ LoopSamplingRaises(t)
    \/ LoopWake(t)
    \/ LoopExit(t)

\* the result of get_current_ai_activity when activity_history is empty
InactiveDefaults ==
    [active |-> FALSE, process_count |-> 0, processes |-> <<>>, directml_active |-> FALSE]

\* get_current_ai_activity, first statement: if not self.activity_history
ReaderCall ==
    /\ mon.kind = "detector"
    /\ reader.pc \in {"idle", "done"}
    /\ reader' = IF activity_history = <<>>
                 THEN [pc |-> "done", saw_empty |-> TRUE, result |-> InactiveDefaults]
                 ELSE [pc |-> "nonempty"]
    /\ UNCHANGED <<mon, loops, activity_history>>
    /\ UNCHANGED notThrVars

\* latest = self.activity_history[-1]
ReaderTakeLatest ==
    /\ reader.pc = "nonempty"
    /\ reader' = [pc |-> "taken", latest |-> activity_history[Len(activity_history)]]
    /\ UNCHANGED <<mon, loops, activity_history>>
    /\ UNCHANGED notThrVars

\* a reader that indexes activity_history[-1] again for every field
ReaderReturnRereads ==
    /\ reader.pc = "taken"
    /\ LET again == activity_history[Len(activity_history)]
       IN  reader' = [pc |-> "done", saw_empty |-> FALSE,
                      result |-> [active |-> reader.latest.ai_process_count > 0
                                                 \/ reader.latest.directml_active,
                                  process_count |-> reader.latest.ai_process_count,
                                  processes |-> again.ai_processes,
                                  directml_active |-> again.directml_active]]
    /\ UNCHANGED <<mon, loops, activity_history>>
    /\ UNCHANGED notThrVars

\* the return statement: every field is read from latest
ReaderReturn ==
    /\ reader.pc = "taken"
    /\ reader' = [pc |-> "done", saw_empty |-> FALSE,
                  result |-> [active |-> reader.latest.ai_process_count > 0
                                             \/ reader.latest.directml_active,
                              process_count |-> reader.latest.ai_process_count,
                              processes |-> reader.latest.ai_processes,
                              directml_active |-> reader.latest.directml_active]]
    /\ UNCHANGED <<mon, loops, activity_history>>
    /\ UNCHANGED notThrVars

NextThreads ==
    \/ StartMonitoring
    \/ StopMonitoring
    \/ JoinReturns
    \/ \E t \in 1..MaxThreads : LoopStep(t)
    \/ \E t \in 1..MaxThreads : LoopKeyboardInterrupt(t)
    \/ ReaderCall
    \/ ReaderTakeLatest
    \/ ReaderReturn

SpecThreads == InitThreads /\ [][NextThreads]_vars

\* every loop thread that can take a step eventually takes one
SpecThreadsFair == SpecThreads /\ \A t \in 1..MaxThreads : WF_vars(LoopStep(t))

C12_SingleLoopThread ==
    Cardinality({t \in DOMAIN loops : Alive(t)}) <= 1

\* C13: a finished get_current_ai_activity() either saw an empty history and
\* returned the inactive defaults, or returned active, process_count, processes
\* and directml_active of one and the same snapshot of the history.
C13_AtomicSnapshot ==
    reader.pc = "done" =>
        IF reader.saw_empty THEN reader.result = InactiveDefaults
        ELSE \E i \in 1..Len(activity_history) :
                 /\ reader.result.process_count = activity_history[i].ai_process_count
                 /\ reader.result.processes = activity_history[i].ai_processes
                 /\ reader.result.directml_active = activity_history[i].directml_active
                 /\ reader.result.active = (activity_history[i].ai_process_count > 0
                                                \/ activity_history[i].directml_active)

\* the detector appended a different snapshot between the reader's
\* activity_history[-1] and its return: the result is the older snapshot, whole
C13_Witness ==
    /\ reader.pc = "done"
    /\ ~reader.saw_empty
    /\ Len(activity_history) = 2
    /\ activity_history[1].ai_process_count = 2
    /\ activity_history[2].directml_active
    /\ reader.result.process_count = 2
    /\ ~reader.result.directml_active

-----------------------------------------------------------------------------
(* One PDHCollector over a session: the constructor's _try_build, then collect()
   once per tick.  pdh.env is the counter subsystem of the session:
     has_pdh   win32pdh could be imported
     expand_raises   ExpandCounterPath(path_pattern) raises
     paths     the number of paths it returns otherwise
     attach    for each of these paths, whether AddCounter succeeds
     primes    whether the first CollectQueryData of _try_build succeeds *)

MaxCollects == 4

AttachOutcomes ==
    {<<>>, <<TRUE>>, <<FALSE>>, <<TRUE, TRUE>>, <<TRUE, FALSE>>, <<FALSE, TRUE>>,
     <<FALSE, FALSE>>}

\* self.counters after the loop over paths: the paths whose AddCounter succeeded
AttachedPaths(attach) ==
    SelectSeq([i \in 1..Len(attach) |-> i], LAMBDA i : attach[i])

PdhEnvs ==
    {e \in [has_pdh : BOOLEAN, expand_raises : BOOLEAN, paths : 0..2,
             attach : AttachOutcomes, primes : BOOLEAN] :
        Len(e.attach) = e.paths}

\* the formatted readings one collect() can get from the counters
SessionReadings ==
    {<<>>,
     <<[name |-> LblCompute0, value |-> Num(P(12))], [name |-> LblCopy0, value |-> Num(P(99))]>>}

InitCollector ==
    /\ pdh \in [built : {"no"}, env : PdhEnvs, available : {FALSE}, counters : {<<>>},
                expand_calls : {0}, samples : {0}, last : {<<>>}, data_seen : {FALSE}]
    /\ IdleExceptCol

\* a _try_build in which the first AddCounter that raises ends the build
TryBuildAttachFatal ==
    /\ pdh.built = "no"
    /\ LET e == pdh.env
           expanded == e.has_pdh
           found == expanded /\ ~e.expand_raises /\ e.paths # 0
           all_attach == \A i \in 1..Len(e.attach) : e.attach[i]
           counters == IF found /\ all_attach THEN AttachedPaths(e.attach) ELSE <<>>
       IN  pdh' = [pdh EXCEPT !.built = "yes",
                              !.expand_calls = IF expanded THEN 1 ELSE 0,
                              !.counters = counters,
                              !.available = found /\ counters # <<>> /\ e.primes]
    /\ UNCHANGED notColVars

\* PDHCollector.__init__: _available = False, then _try_build()
TryBuild ==
    /\ pdh.built = "no"
    /\ LET e == pdh.env
           expanded == e.has_pdh
           found == expanded /\ ~e.expand_raises /\ e.paths # 0
           counters == IF found THEN AttachedPaths(e.attach) ELSE <<>>
       IN  pdh' = [pdh EXCEPT !.built = "yes",
                              !.expand_calls = IF expanded THEN 1 ELSE 0,
                              !.counters = counters,
                              !.available = found /\ counters # <<>> /\ e.primes]
    /\ UNCHANGED notColVars

\* a collect() that builds the query again when the collector is unavailable
CollectSampleRebuilds ==
    /\ pdh.built = "yes"
    /\ pdh.samples < MaxCollects
    /\ \E failed \in BOOLEAN, data \in SessionReadings :
           LET result == Collect(pdh.available, failed, data, GpuIncludeNames,
                                 GpuExcludeContains)
           IN  pdh' = [pdh EXCEPT !.samples = @ + 1,
                                  !.last = result,
                                  !.data_seen = @ \/ result # <<>>,
                                  !.expand_calls = IF pdh.available THEN @ ELSE @ + 1]
    /\ UNCHANGED notColVars

\* PDHCollector.collect(), once per tick
CollectSample ==
    /\ pdh.built = "yes"
    /\ pdh.samples < MaxCollects
    /\ \E failed \in BOOLEAN, data \in SessionReadings :
           LET result == Collect(pdh.available, failed, data, GpuIncludeNames,
                                 GpuExcludeContains)
           IN  pdh' = [pdh EXCEPT !.samples = @ + 1,
                                  !.last = result,
                                  !.data_seen = @ \/ result # <<>>]
    /\ UNCHANGED notColVars

NextCollector ==
    \/ TryBuild
    \/ CollectSample

SpecCollector == InitCollector /\ [][NextCollector]_vars

\* C14: when the pattern expanded to zero paths, the collector is unavailable
\* from construction on, every collect() of the session has returned no data, and
\* the pattern has been expanded exactly once.
C14_UnavailableForSession ==
    (pdh.built = "yes" /\ pdh.env.has_pdh /\ ~pdh.env.expand_raises
         /\ pdh.env.paths = 0) =>
        /\ ~pdh.available
        /\ pdh.counters = <<>>
        /\ pdh.expand_calls = 1
        /\ pdh.last = <<>>
        /\ ~pdh.data_seen

\* several ticks after a resolution to zero paths
C14_Witness ==
    /\ pdh.built = "yes"
    /\ pdh.env.has_pdh
    /\ ~pdh.env.expand_raises
    /\ pdh.env.paths = 0
    /\ pdh.samples >= 3
    /\ ~pdh.available

-----------------------------------------------------------------------------
(* HardwareMonitor.get_gpu_detailed_info *)

DetailedKeys ==
    {"available", "compute_percent", "overall_percent", "engines", "top_engines",
     "compute_engines", "method"}

DetailedTop == 3

DetailedZero(available, method) ==
    [available |-> available, compute_percent |-> 0, overall_percent |-> 0,
     engines |-> <<>>, top_engines |-> <<>>, compute_engines |-> <<>>, method |-> method]

\* the entries of gpu_data whose label does not contain "copy"
OverallData(gpu_data) ==
    SelectSeq(gpu_data, LAMBDA e : ~Contains(Lower(KwCopy), Lower(e.name)))

\* get_gpu_detailed_info returning the figures as summarised, without clamp()
GetGpuDetailedInfoNoClamp(available, failed, raises, data) ==
    IF ~available THEN DetailedZero(FALSE, "pdh_unavailable")
    ELSE IF raises THEN DetailedZero(FALSE, "error")
    ELSE LET gpu_data == Collect(available, failed, data, GpuIncludeNames, GpuExcludeContains)
             compute == SummarizeEngineUtil(gpu_data, <<KwCompute>>)
             overall == SummarizeEngineUtil(OverallData(gpu_data), <<>>)
         IN  IF gpu_data = <<>> THEN DetailedZero(TRUE, "pdh_no_data")
             ELSE [available |-> TRUE,
                   compute_percent |-> compute.overall,
                   overall_percent |-> overall.overall,
                   engines |-> [i \in 1..Len(gpu_data) |->
                                   [name |-> gpu_data[i].name, val |-> gpu_data[i].value.v]],
                   top_engines |-> FirstK(overall.top, DetailedTop),
                   compute_engines |-> FirstK(compute.top, DetailedTop),
                   method |-> "pdh"]

\* raises: a statement inside the try block raised an Exception
GetGpuDetailedInfo(available, failed, raises, data) ==
    IF ~available THEN DetailedZero(FALSE, "pdh_unavailable")
    ELSE IF raises THEN DetailedZero(FALSE, "error")
    ELSE LET gpu_data == Collect(available, failed, data, GpuIncludeNames, GpuExcludeContains)
             compute == SummarizeEngineUtil(gpu_data, <<KwCompute>>)
             overall == SummarizeEngineUtil(OverallData(gpu_data), <<>>)
         IN  IF gpu_data = <<>> THEN DetailedZero(TRUE, "pdh_no_data")
             ELSE [available |-> TRUE,
                   compute_percent |-> Clamp(compute.overall),
                   overall_percent |-> Clamp(overall.overall),
                   engines |-> [i \in 1..Len(gpu_data) |->
                                   [name |-> gpu_data[i].name,
                                    val |-> Clamp(gpu_data[i].value.v)]],
                   top_engines |-> ClampTop(FirstK(overall.top, DetailedTop)),
                   compute_engines |-> ClampTop(FirstK(compute.top, DetailedTop)),
                   method |-> "pdh"]

InitDetailed ==
    /\ raw \in RawMaps
    /\ gpu_available \in BOOLEAN
    /\ npu_available = FALSE
    /\ summary = NoCall
    /\ repeated = FALSE
    /\ IdleExceptAgg

\* summary.path = "detailed": the result of get_gpu_detailed_info() is in
\* summary.info
GetGpuDetailedInfoCall ==
    /\ \E failed \in BOOLEAN, raises \in BOOLEAN :
           summary' = [path |-> "detailed", failed |-> failed, raises |-> raises,
                       info |-> GetGpuDetailedInfo(gpu_available, failed, raises, raw)]
    /\ UNCHANGED <<raw, gpu_available, npu_available, repeated>>
    /\ UNCHANGED notAggVars

NextDetailed == GetGpuDetailedInfoCall

SpecDetailed == InitDetailed /\ [][NextDetailed]_vars

NamedInRange(s) == \A i \in 1..Len(s) : InPercentRange(s[i].val)

\* C15: whatever the collector state (unavailable, no data, readings, an
\* exception inside the call), get_gpu_detailed_info returns a result with the
\* keys available, compute_percent, overall_percent, engines, top_engines,
\* compute_engines and method; every percentage in it is within [0,100] and
\* top_engines and compute_engines have at most three entries.
C15_DetailedInfoShape ==
    summary.path = "detailed" =>
        LET r == summary.info
        IN  /\ DOMAIN r = DetailedKeys
            /\ r.method \in {"pdh_unavailable", "pdh_no_data", "pdh", "error"}
            /\ r.available = (r.method \in {"pdh_no_data", "pdh"})
            /\ InPercentRange(r.compute_percent)
            /\ InPercentRange(r.overall_percent)
            /\ NamedInRange(r.engines)
            /\ NamedInRange(r.top_engines)
            /\ NamedInRange(r.compute_engines)
            /\ Len(r.top_engines) <= 3
            /\ Len(r.compute_engines) <= 3

\* a normal result over more than three engines, one of them reading 150
C15_Witness ==
    /\ summary.path = "detailed"
    /\ summary.info.method = "pdh"
    /\ Len(summary.info.engines) > 3
    /\ Len(summary.info.compute_engines) = 3
    /\ summary.info.compute_percent = P(100)
    /\ \E i \in 1..Len(raw) : ~raw[i].value.nan /\ raw[i].value.v > P(100)

-----------------------------------------------------------------------------
(* PDHCollector._filter_data over the keyword lists a collector can be built
   with *)

FilterIncludeChoices == {<<>>, <<KwCompute>>, <<KwCopy, Kw3D>>}

FilterExcludeChoices == {<<>>, <<KwCopy, KwVideo, Kw3D>>, <<KwCompute>>}

InitFilter ==
    /\ raw \in RawMaps
    /\ gpu_available = FALSE
    /\ npu_available = FALSE
    /\ summary = NoCall
    /\ repeated = FALSE
    /\ IdleExceptAgg

\* summary.path = "filter": summary.filtered is _filter_data(raw) of a
\* collector built with include_names = summary.include and
\* exclude_contains = summary.exclude
FilterDataCall ==
    /\ \E inc \in FilterIncludeChoices, exc \in FilterExcludeChoices :
           summary' = [path |-> "filter", include |-> inc, exclude |-> exc,
                       filtered |-> FilterData(raw, inc, exc)]
    /\ UNCHANGED <<raw, gpu_available, npu_available, repeated>>
    /\ UNCHANGED notAggVars

NextFilter == FilterDataCall

SpecFilter == InitFilter /\ [][NextFilter]_vars

FilterKeptIdx == {i \in ValidIdx : LabelPasses(raw[i].name, summary.include, summary.exclude)}

-----------------------------------------------------------------------------
(* The top-k list of summarize_engine_util *)

\* the entries of raw that are in the list
TopIdx(top) == {i \in ValidIdx : \E j \in 1..Len(top) : top[j].name = raw[i].name}

\* C17: the list summarize_engine_util returns is in descending order of
\* value, has min(5, number of valid entries) entries, each of them an entry
\* of the filtered map with its value, and no valid entry left out of the list
\* has a value greater than an entry in the list.
C17_TopKList ==
    summary.path = "direct" =>
        LET top == summary.top
        IN  /\ \A j \in 1..(Len(top) - 1) : top[j].val >= top[j + 1].val
            /\ Len(top) = Min2(5, Cardinality(ValidIdx))
            /\ \A j \in 1..Len(top) :
                   \E i \in ValidIdx : raw[i].name = top[j].name /\ raw[i].value.v = top[j].val
            /\ Cardinality(TopIdx(top)) = Len(top)
            /\ \A i \in ValidIdx \ TopIdx(top) :
                   \A j \in 1..Len(top) : raw[i].value.v <= top[j].val

\* more than five valid entries, given in an order that is not descending:
\* some are left out of the list
C17_Witness ==
    /\ summary.path = "direct"
    /\ Cardinality(ValidIdx) > 5
    /\ Len(summary.top) = 5
    /\ ValidIdx \ TopIdx(summary.top) # {}
    /\ \E i \in ValidIdx : i + 1 \in ValidIdx /\ raw[i].value.v < raw[i + 1].value.v

-----------------------------------------------------------------------------
(* The CPU windows of NPUUsageEstimator once they are nearly full *)

\* the window a deque(maxlen) holds after w readings of one workload
WarmWindow(level, amp, pattern, w, maxlen) ==
    [i \in 1..Min2(w, maxlen) |-> CpuReading(level, amp, pattern, i + w - Min2(w, maxlen))]

\* <<idle ticks, active ticks>> the monitor has already run
WarmTicks ==
    {<<0, 0>>, <<HistorySize - 1, HistorySize - 2>>, <<HistorySize, MinActive>>}

\* n_idle and n_active count the ticks from here on
InitWindows ==
    /\ workload \in {w \in Workloads : w.amp = 1}
    /\ n_idle = 0
    /\ n_active = 0
    /\ \E warm \in WarmTicks :
           /\ cpu_baseline = WarmWindow(workload.idle, workload.amp, IdlePattern,
                                        warm[1], HistorySize)
           /\ off_baseline = WarmWindow(workload.idle, workload.amp, IdlePattern,
                                        warm[1], OffloadHistorySize)
           /\ simple_baseline = WarmWindow(workload.idle, workload.amp, IdlePattern,
                                           warm[1], SimpleHistorySize)
           /\ cpu_during_ai = WarmWindow(workload.active, workload.amp, ActivePattern,
                                         warm[2], HistorySize)
           /\ ai_process_count = [i \in 1..Min2(warm[2], HistorySize) |-> workload.procs]
           /\ off_during_ai = WarmWindow(workload.active, workload.amp, ActivePattern,
                                         warm[2], OffloadHistorySize)
           /\ simple_ai = WarmWindow(workload.active, workload.amp, ActivePattern,
                                     warm[2], SimpleHistorySize)
    /\ npu_estimate = EstimateNpuUsage(cpu_baseline, cpu_during_ai, ai_process_count)
    /\ off_estimate = EstimateNpuOffload(off_baseline, off_during_ai)
    /\ simple_estimate = EstimateNpuFromCpu(simple_baseline, simple_ai)
    /\ IdleExceptEst

NextWindows ==
    \/ IdleTick
    \/ ActiveTick

SpecWindows == InitWindows /\ [][NextWindows]_vars

\* new is old with x pushed at the end, the oldest sample dropped when old
\* was at capacity
PushedFifo(old, new, x, capacity) ==
    /\ Len(new) = Min2(Len(old) + 1, capacity)
    /\ new[Len(new)] = x
    /\ \A i \in 1..(Len(new) - 1) : new[i] = old[i + Len(old) + 1 - Len(new)]

\* C18: every tick is an idle tick or an active tick; an idle tick pushes its
\* cpu_percent into the baseline window and leaves the active window as it
\* was, an active tick pushes into the active window and leaves the baseline
\* window as it was; a window never holds more than its capacity and, when
\* full, drops its oldest sample to take the new one.
C18_OneWindowPerTick ==
    [][ /\ (n_idle' = n_idle + 1) # (n_active' = n_active + 1)
        /\ (n_idle' = n_idle + 1) =>
               /\ PushedFifo(cpu_baseline, cpu_baseline',
                             CpuReading(workload.idle, workload.amp, IdlePattern, n_idle),
                             HistorySize)
               /\ cpu_during_ai' = cpu_during_ai
        /\ (n_active' = n_active + 1) =>
               /\ PushedFifo(cpu_during_ai, cpu_during_ai',
                             CpuReading(workload.active, workload.amp, ActivePattern, n_active),
                             HistorySize)
               /\ cpu_baseline' = cpu_baseline
        /\ Len(cpu_baseline') <= HistorySize
        /\ Len(cpu_during_ai') <= HistorySize ]_vars

\* both windows are full and have taken samples after becoming full; the
\* baseline window holds unequal samples, so the order of eviction shows
C18_Witness ==
    /\ Len(cpu_baseline) = HistorySize
    /\ Len(cpu_during_ai) = HistorySize
    /\ n_idle >= 3
    /\ n_active >= 4
    /\ cpu_baseline[1] # cpu_baseline[2]
    /\ cpu_during_ai[1] # cpu_during_ai[2]

-----------------------------------------------------------------------------
(* The efficiency of the CPU-pattern estimators *)

\* mean(active) >= mean(baseline), both windows non-empty
ActiveNotBelow(baseline, active) ==
    SumSeq(active) * Len(baseline) >= SumSeq(baseline) * Len(active)

NonNegative(x) == x.n >= 0 /\ x.d > 0

\* C19: with sufficient samples and a baseline mean above 0 the estimators
\* work with efficiency = max(0, (baseline_avg - active_avg) / baseline_avg),
\* which is never negative and is 0 when the active mean is not below the
\* baseline mean (npu_monitor reports it as a percentage, ai_activity_detector
\* as a ratio, SimpleNPUMonitor only through its estimate).  With sufficient
\* samples and a baseline mean of 0 all three return no result at all: no
\* efficiency of 0 is produced.
C19_Efficiency ==
    /\ (Len(cpu_baseline) >= 10 /\ Len(cpu_during_ai) >= 5) =>
           IF SumSeq(cpu_baseline) > 0
           THEN /\ npu_estimate.kind = "estimate"
                /\ NonNegative(npu_estimate.cpu_reduction_ratio)
                /\ REq(npu_estimate.cpu_reduction_ratio,
                       RMul(Efficiency(cpu_baseline, cpu_during_ai), 100))
                /\ ActiveNotBelow(cpu_baseline, cpu_during_ai) <=>
                       REq(npu_estimate.cpu_reduction_ratio, R(0, 1))
           ELSE n_idle + n_active > 0 => npu_estimate.kind = "none"
    /\ (Len(off_baseline) >= 10 /\ Len(off_during_ai) >= 5) =>
           IF SumSeq(off_baseline) > 0
           THEN /\ off_estimate.kind = "estimate"
                /\ NonNegative(off_estimate.cpu_reduction_ratio)
                /\ REq(off_estimate.cpu_reduction_ratio,
                       Efficiency(off_baseline, off_during_ai))
                /\ ActiveNotBelow(off_baseline, off_during_ai) <=>
                       REq(off_estimate.cpu_reduction_ratio, R(0, 1))
           ELSE n_idle + n_active > 0 => off_estimate.kind = "none"
    /\ (Len(simple_baseline) >= 20 /\ Len(simple_ai) >= 10) =>
           IF SumSeq(simple_baseline) > 0
           THEN /\ simple_estimate.kind = "estimate"
                /\ NonNegative(simple_estimate.estimate)
                /\ ActiveNotBelow(simple_baseline, simple_ai) =>
                       REq(simple_estimate.estimate, R(0, 1))
           ELSE n_idle + n_active > 0 => simple_estimate.kind = "none"

\* sufficient samples in all three estimators, a baseline mean above 0 and an
\* active mean above the baseline mean: the efficiency is 0, not negative
C19_Witness ==
    /\ Len(simple_baseline) >= 20
    /\ Len(simple_ai) >= 10
    /\ SumSeq(cpu_baseline) > 0
    /\ ~ActiveNotBelow(cpu_during_ai, cpu_baseline)
    /\ npu_estimate.kind = "estimate"
    /\ REq(npu_estimate.cpu_reduction_ratio, R(0, 1))
    /\ off_estimate.kind = "estimate"
    /\ REq(off_estimate.cpu_reduction_ratio, R(0, 1))
    /\ simple_estimate.kind = "estimate"

\* C19 as stated: with sufficient samples the estimator always produces an
\* efficiency, never negative, and it is 0 when the baseline mean is 0
C19_AsStated ==
    /\ (Len(cpu_baseline) >= 10 /\ Len(cpu_during_ai) >= 5) =>
           /\ npu_estimate.kind = "estimate"
           /\ NonNegative(npu_estimate.cpu_reduction_ratio)
           /\ SumSeq(cpu_baseline) = 0 => REq(npu_estimate.cpu_reduction_ratio, R(0, 1))
    /\ (Len(off_baseline) >= 10 /\ Len(off_during_ai) >= 5) =>
           /\ off_estimate.kind = "estimate"
           /\ NonNegative(off_estimate.cpu_reduction_ratio)
           /\ SumSeq(off_baseline) = 0 => REq(off_estimate.cpu_reduction_ratio, R(0, 1))
    /\ (Len(simple_baseline) >= 20 /\ Len(simple_ai) >= 10) =>
           /\ simple_estimate.kind = "estimate"
           /\ NonNegative(simple_estimate.estimate)

-----------------------------------------------------------------------------
(* practical_npu_monitor.IntelAIBoostMonitor.estimate_npu_activity *)

PracHistorySize == 120

PracMinBaseline == 30

RAdd(a, k) == R(a.n + k * a.d, a.d)

\* estimate_npu_activity(ai_processes, power_usage, gpu_usage, cpu_percent) on
\* an object whose cpu_baseline is the given window.  ai_activity_history and
\* power_history are appended to and never read by it: they are left out.
EstimateNpuActivity(cpu_baseline_before, process_count, gpu_usage, cpu_percent) ==
    LET ai_active == process_count > 0
        baseline == IF ~ai_active
                    THEN DequeAppend(cpu_baseline_before, cpu_percent, PracHistorySize)
                    ELSE cpu_baseline_before
        total == SumSeq(baseline)
        cpu_efficiency == IF total > 0
                          THEN R(Max2(0, total - cpu_percent * Len(baseline)), total)
                          ELSE R(0, 1)
        estimated == ai_active /\ Len(baseline) > PracMinBaseline
        hit == estimated /\ RLt(R(1, 10), cpu_efficiency) /\ gpu_usage < 20
    IN  [kind |-> "estimate",
         estimate |-> IF hit THEN RMin(R(100, 1), RMul(cpu_efficiency, 200)) ELSE R(0, 1),
         confidence |-> IF hit THEN RMin(R(100, 1), RAdd(RMul(cpu_efficiency, 300), 20))
                        ELSE IF estimated /\ gpu_usage > 50 THEN R(80, 1)
                        ELSE R(0, 1),
         ai_active |-> ai_active,
         ai_process_count |-> process_count,
         cpu_baseline |-> baseline]

-----------------------------------------------------------------------------
(* The CPU-pattern estimators applied to given window contents *)

ThresholdShapes == {<<10, 5>>, <<20, 10>>, <<30, 10>>, <<31, 1>>, <<31, 10>>}

ThresholdParams ==
    [idle : {0, 20}, active : {0, 16, 17, 18, 30}, amp : {0, 1}, shape : ThresholdShapes]

TickCpuPercents == {0, 16, 18, 30}

TickGpuUsages == {0, 19, 20, 50, 51}

TickProcessCounts == {0, 1}

InitThreshold ==
    /\ est_in \in {WindowsOf(w) : w \in ThresholdParams}
    /\ est_out = [method |-> "none"]
    /\ IdleExceptApply

\* NPUUsageEstimator.estimate_npu_usage on the windows
ApplyNpuMonitor ==
    /\ est_out' = [method |-> "npu_monitor",
                   result |-> EstimateNpuUsage(est_in.baseline, est_in.active,
                                               est_in.process_count)]
    /\ UNCHANGED est_in
    /\ UNCHANGED notApplyVars

\* SimpleNPUMonitor.estimate_npu_from_cpu, the windows being those after its append
ApplySimple ==
    /\ est_out' = [method |-> "simple",
                   result |-> EstimateNpuFromCpu(est_in.baseline, est_in.active)]
    /\ UNCHANGED est_in
    /\ UNCHANGED notApplyVars

\* IntelAIBoostMonitor.estimate_npu_activity in a tick of the monitor whose
\* baseline window is est_in.baseline
ApplyPractical ==
    /\ \E process_count \in TickProcessCounts, gpu_usage \in TickGpuUsages,
          cpu_percent \in TickCpuPercents :
           est_out' = [method |-> "practical",
                       process_count |-> process_count,
                       gpu_usage |-> gpu_usage,
                       cpu_percent |-> cpu_percent,
                       result |-> EstimateNpuActivity(est_in.baseline, process_count,
                                                      gpu_usage, cpu_percent)]
    /\ UNCHANGED est_in
    /\ UNCHANGED notApplyVars

NextThreshold ==
    \/ ApplyNpuMonitor
    \/ ApplySimple
    \/ ApplyPractical

SpecThreshold == InitThreshold /\ [][NextThreshold]_vars

Zero(x) == REq(x, R(0, 1))

Positive(x) == RLt(R(0, 1), x)

\* estimate 0 up to the threshold and above 0 beyond it
SplitsAt(threshold, efficiency, estimate) ==
    /\ RLe(efficiency, threshold) => Zero(estimate)
    /\ RLt(threshold, efficiency) => Positive(estimate)

\* C20: whenever NPUUsageEstimator (10 and 5 samples, threshold 0.15) or
\* SimpleNPUMonitor (20 and 10 samples, threshold 0.15) has sufficient samples
\* and a baseline mean above 0, its estimate is 0 if the efficiency is at most
\* the threshold and above 0 if the efficiency exceeds it; with a baseline mean
\* of 0 they return no estimate.  IntelAIBoostMonitor, with AI processes
\* present and more than 30 baseline samples, estimates 0 if the efficiency of
\* the tick's cpu_percent is at most 0.1, above 0 if it exceeds 0.1 and the GPU
\* usage is below 20, and 0 if it exceeds 0.1 and the GPU usage is 20 or more.
C20_ThresholdSplit ==
    /\ (est_out.method = "npu_monitor"
        /\ Len(est_in.baseline) >= 10 /\ Len(est_in.active) >= 5) =>
           IF SumSeq(est_in.baseline) > 0
           THEN /\ est_out.result.kind = "estimate"
                /\ SplitsAt(R(15, 100), Efficiency(est_in.baseline, est_in.active),
                            est_out.result.estimate)
           ELSE est_out.result.kind = "none"
    /\ (est_out.method = "simple"
        /\ Len(est_in.baseline) >= 20 /\ Len(est_in.active) >= 10) =>
           IF SumSeq(est_in.baseline) > 0
           THEN /\ est_out.result.kind = "estimate"
                /\ SplitsAt(R(15, 100), Efficiency(est_in.baseline, est_in.active),
                            est_out.result.estimate)
           ELSE est_out.result.kind = "none"
    /\ (est_out.method = "practical"
        /\ est_out.process_count > 0 /\ Len(est_in.baseline) > 30) =>
           LET e == Efficiency(est_in.baseline, <<est_out.cpu_percent>>)
           IN  /\ est_out.result.kind = "estimate"
               /\ RLe(e, R(1, 10)) => Zero(est_out.result.estimate)
               /\ (RLt(R(1, 10), e) /\ est_out.gpu_usage < 20) =>
                      Positive(est_out.result.estimate)
               /\ (RLt(R(1, 10), e) /\ est_out.gpu_usage >= 20) =>
                      Zero(est_out.result.estimate)

\* SimpleNPUMonitor with 20 and 10 samples and an efficiency of exactly 0.15:
\* the estimate is 0
C20_Witness ==
    /\ est_out.method = "simple"
    /\ Len(est_in.baseline) = 20
    /\ Len(est_in.active) = 10
    /\ REq(Efficiency(est_in.baseline, est_in.active), R(15, 100))
    /\ est_out.result.kind = "estimate"
    /\ Zero(est_out.result.estimate)

\* C20 as stated: with sufficient samples each of the three estimators gives 0
\* up to its threshold and a positive estimate beyond it
C20_AsStated ==
    /\ (est_out.method = "npu_monitor"
        /\ Len(est_in.baseline) >= 10 /\ Len(est_in.active) >= 5) =>
           /\ est_out.result.kind = "estimate"
           /\ SplitsAt(R(15, 100), Efficiency(est_in.baseline, est_in.active),
                       est_out.result.estimate)
    /\ (est_out.method = "simple"
        /\ Len(est_in.baseline) >= 20 /\ Len(est_in.active) >= 10) =>
           /\ est_out.result.kind = "estimate"
           /\ SplitsAt(R(15, 100), Efficiency(est_in.baseline, est_in.active),
                       est_out.result.estimate)
    /\ (est_out.method = "practical"
        /\ est_out.process_count > 0 /\ Len(est_in.baseline) > 30) =>
           /\ est_out.result.kind = "estimate"
           /\ SplitsAt(R(1, 10), Efficiency(est_in.baseline, <<est_out.cpu_percent>>),
                       est_out.result.estimate)

-----------------------------------------------------------------------------
(* A tick of the NPU monitors: the direct counter reading next to the
   CPU-pattern estimate.  est_in holds the estimator's windows before the
   tick; a direct reading is the list of the valid counter values. *)

EnhancedWindowSize == 120

EnhancedBaselineSize == 300

EnhancedPeakSize == 100

\* max(npu_values) of a non-empty reading
DirectMax(npu_data) == MaxSeq(npu_data)

\* collect_metrics skipping the usage estimator when the direct reading is above 0
CollectMetricsBypass(w, npu_data, process_count, cpu_percent) ==
    LET npu_usage == IF npu_data # <<>> THEN DirectMax(npu_data) ELSE 0
        active == process_count > 0
        baseline == IF active \/ npu_usage > 0 THEN w.baseline
                    ELSE DequeAppend(w.baseline, cpu_percent, HistorySize)
        during_ai == IF active /\ npu_usage = 0
                     THEN DequeAppend(w.active, cpu_percent, HistorySize) ELSE w.active
        counts == IF active /\ npu_usage = 0
                  THEN DequeAppend(w.process_count, process_count, HistorySize)
                  ELSE w.process_count
    IN  [npu_usage |-> npu_usage,
         npu_engines |-> npu_data,
         npu_estimate |-> IF npu_usage > 0 THEN NoEstimate
                          ELSE EstimateNpuUsage(baseline, during_ai, counts),
         cpu_baseline |-> baseline,
         cpu_during_ai |-> during_ai,
         ai_process_count |-> counts]

\* NPUMonitor.collect_metrics: the returned npu_usage, npu_engines and
\* npu_estimate, and the estimator's windows after the call
CollectMetrics(w, npu_data, process_count, cpu_percent) ==
    LET npu_usage == IF npu_data # <<>> THEN DirectMax(npu_data) ELSE 0
        active == process_count > 0
        baseline == IF active THEN w.baseline
                    ELSE DequeAppend(w.baseline, cpu_percent, HistorySize)
        during_ai == IF active THEN DequeAppend(w.active, cpu_percent, HistorySize)
                     ELSE w.active
        counts == IF active THEN DequeAppend(w.process_count, process_count, HistorySize)
                  ELSE w.process_count
    IN  [npu_usage |-> npu_usage,
         npu_engines |-> npu_data,
         npu_estimate |-> EstimateNpuUsage(baseline, during_ai, counts),
         cpu_baseline |-> baseline,
         cpu_during_ai |-> during_ai,
         ai_process_count |-> counts]

\* SimpleNPUMonitor.get_npu_usage: -1 without counters or when the collection
\* raises, else the largest valid value, 0 when there is none
GetNpuUsage(available, raises, npu_data) ==
    IF ~available \/ raises THEN -1
    ELSE IF npu_data # <<>> THEN DirectMax(npu_data) ELSE 0

\* one pass of the loop of SimpleNPUMonitor.start_monitoring: npu_direct,
\* npu_estimated and the windows after it
SimpleLoopTick(w, available, raises, npu_data, process_count, cpu_percent) ==
    LET ai_active == process_count > 0
        baseline == IF ai_active THEN w.baseline
                    ELSE DequeAppend(w.baseline, cpu_percent, SimpleHistorySize)
        ai_cpu_usage == IF ai_active THEN DequeAppend(w.active, cpu_percent, SimpleHistorySize)
                        ELSE w.active
    IN  [npu_direct |-> GetNpuUsage(available, raises, npu_data),
         npu_estimated |-> EstimateNpuFromCpu(baseline, ai_cpu_usage),
         cpu_baseline |-> baseline,
         ai_cpu_usage |-> ai_cpu_usage]

\* EnhancedNPUMonitor.collect_comprehensive_metrics: metrics['npu'] and the
\* estimator's histories after update_metrics; the AI processes found use
\* ai_cpu percent of CPU in total
CollectComprehensiveMetrics(w, available, npu_data, process_count, ai_cpu, cpu_percent) ==
    LET ai_active == process_count > 0
        npu_counter_data == IF available THEN npu_data ELSE <<>>
        history == DequeAppend(w.history, [cpu |-> cpu_percent, ai_active |-> ai_active],
                               EnhancedWindowSize)
        baseline_cpu == IF ai_active THEN w.baseline
                        ELSE DequeAppend(w.baseline, cpu_percent, EnhancedBaselineSize)
        ai_peak_cpu == IF ai_active THEN DequeAppend(w.ai_peak_cpu, ai_cpu, EnhancedPeakSize)
                       ELSE w.ai_peak_cpu
    IN  [counter_data |-> npu_counter_data,
         estimation |-> SmartEstimateNpuUsage(history, baseline_cpu, ai_peak_cpu),
         direct_available |-> npu_counter_data # <<>>,
         history |-> history,
         baseline_cpu |-> baseline_cpu,
         ai_peak_cpu |-> ai_peak_cpu]

DirectShapes == {<<0, 0>>, <<10, 5>>, <<20, 10>>, <<25, 10>>}

DirectParams == [idle : {20}, active : {0, 30}, amp : {0, 1}, shape : DirectShapes]

DirectReadings == {<<>>, <<0>>, <<40>>, <<40, 70>>}

DirectTickCpu == {0, 30}

InitDirect ==
    /\ est_in \in {WindowsOf(w) : w \in DirectParams}
    /\ est_out = [method |-> "none"]
    /\ IdleExceptApply

CollectMetricsTick ==
    /\ \E npu_data \in DirectReadings, process_count \in TickProcessCounts,
          cpu_percent \in DirectTickCpu :
           est_out' = [method |-> "npu_monitor", npu_data |-> npu_data,
                       result |-> CollectMetrics(est_in, npu_data, process_count, cpu_percent)]
    /\ UNCHANGED est_in
    /\ UNCHANGED notApplyVars

SimpleMonitorTick ==
    /\ \E available \in BOOLEAN, raises \in BOOLEAN, npu_data \in DirectReadings,
          process_count \in TickProcessCounts, cpu_percent \in DirectTickCpu :
           est_out' = [method |-> "simple", npu_data |-> npu_data,
                       available |-> available, raises |-> raises,
                       result |-> SimpleLoopTick(est_in, available, raises, npu_data,
                                                 process_count, cpu_percent)]
    /\ UNCHANGED est_in
    /\ UNCHANGED notApplyVars

EnhancedMonitorTick ==
    /\ \E available \in BOOLEAN, npu_data \in DirectReadings,
          process_count \in TickProcessCounts, cpu_percent \in DirectTickCpu :
           est_out' = [method |-> "enhanced", npu_data |-> npu_data,
                       available |-> available,
                       result |-> CollectComprehensiveMetrics(est_in, available, npu_data,
                                                              process_count, 5, cpu_percent)]
    /\ UNCHANGED est_in
    /\ UNCHANGED notApplyVars

NextDirect ==
    \/ CollectMetricsTick
    \/ SimpleMonitorTick
    \/ EnhancedMonitorTick

SpecDirect == InitDirect /\ [][NextDirect]_vars

\* the reading holds a value above 0
DirectAboveZero(npu_data) == \E i \in 1..Len(npu_data) : npu_data[i] > 0

IsLargestOf(x, npu_data) ==
    /\ \E i \in 1..Len(npu_data) : npu_data[i] = x
    /\ \A i \in 1..Len(npu_data) : npu_data[i] <= x

\* C21: when a tick has a direct counter reading above zero, the direct
\* figure of the result is that reading (its largest value), whatever the
\* windows hold.  The CPU-pattern heuristic is not bypassed: in the same tick
\* the windows take the tick's cpu_percent and the estimate computed from them
\* is reported next to the direct figure; the results carry no method tag
\* "Direct".
C21_DirectBesideEstimate ==
    /\ (est_out.method = "npu_monitor" /\ DirectAboveZero(est_out.npu_data)) =>
           /\ IsLargestOf(est_out.result.npu_usage, est_out.npu_data)
           /\ Len(est_out.result.cpu_baseline) + Len(est_out.result.cpu_during_ai)
                  = Len(est_in.baseline) + Len(est_in.active) + 1
           /\ est_out.result.npu_estimate
                  = EstimateNpuUsage(est_out.result.cpu_baseline,
                                     est_out.result.cpu_during_ai,
                                     est_out.result.ai_process_count)
    /\ (est_out.method = "simple" /\ est_out.available /\ ~est_out.raises
        /\ DirectAboveZero(est_out.npu_data)) =>
           /\ IsLargestOf(est_out.result.npu_direct, est_out.npu_data)
           /\ Len(est_out.result.cpu_baseline) + Len(est_out.result.ai_cpu_usage)
                  = Len(est_in.baseline) + Len(est_in.active) + 1
           /\ est_out.result.npu_estimated
                  = EstimateNpuFromCpu(est_out.result.cpu_baseline,
                                       est_out.result.ai_cpu_usage)
    /\ (est_out.method = "enhanced" /\ est_out.available
        /\ DirectAboveZero(est_out.npu_data)) =>
           /\ est_out.result.direct_available
           /\ est_out.result.counter_data = est_out.npu_data
           /\ Len(est_out.result.history) = Len(est_in.history) + 1
           /\ est_out.result.estimation
                  = SmartEstimateNpuUsage(est_out.result.history,
                                          est_out.result.baseline_cpu,
                                          est_out.result.ai_peak_cpu)
           /\ "method" \in DOMAIN est_out.result.estimation =>
                  est_out.result.estimation.method # "Direct"

\* a direct reading of 70 and, in the same result, a CPU-pattern estimate
\* above 0 computed from the windows
C21_Witness ==
    /\ est_out.method = "npu_monitor"
    /\ est_out.result.npu_usage = 70
    /\ est_out.result.npu_estimate.kind = "estimate"
    /\ RLt(R(0, 1), est_out.result.npu_estimate.estimate)
    /\ est_out.result.cpu_during_ai # est_in.active

\* C21 as stated: with a direct reading above zero the result is the direct
\* reading alone; the heuristic is bypassed, so the windows are not touched
\* and no estimate computed from them is in the result
C21_AsStated ==
    /\ (est_out.method = "npu_monitor" /\ DirectAboveZero(est_out.npu_data)) =>
           /\ IsLargestOf(est_out.result.npu_usage, est_out.npu_data)
           /\ est_out.result.npu_estimate = NoEstimate
           /\ est_out.result.cpu_baseline = est_in.baseline
           /\ est_out.result.cpu_during_ai = est_in.active
    /\ (est_out.method = "simple" /\ est_out.available /\ ~est_out.raises
        /\ DirectAboveZero(est_out.npu_data)) =>
           /\ IsLargestOf(est_out.result.npu_direct, est_out.npu_data)
           /\ est_out.result.npu_estimated = NoEstimate
    /\ (est_out.method = "enhanced" /\ est_out.available
        /\ DirectAboveZero(est_out.npu_data)) =>
           /\ est_out.result.direct_available
           /\ est_out.result.estimation = NoEstimate

-----------------------------------------------------------------------------
(* The signal sources of the blended estimators *)

\* what a sample_pdh_metrics() call of UltimateNPUMonitor meets:
\*   has_deps     win32pdh and the other imports are present
\*   add_raises   the counter whose AddCounter raises ("none": no one)
\*   read_fails   the counters whose GetFormattedCounterValue raises
PdhSamplings ==
    {[has_deps |-> TRUE, add_raises |-> "none", read_fails |-> {}],
     [has_deps |-> FALSE, add_raises |-> "none", read_fails |-> {}],
     [has_deps |-> TRUE, add_raises |-> "power", read_fails |-> {}],
     [has_deps |-> TRUE, add_raises |-> "cpu", read_fails |-> {}],
     [has_deps |-> TRUE, add_raises |-> "none", read_fails |-> {"gpu"}],
     [has_deps |-> TRUE, add_raises |-> "none", read_fails |-> {"power"}],
     [has_deps |-> TRUE, add_raises |-> "none", read_fails |-> {"cpu"}],
     [has_deps |-> TRUE, add_raises |-> "none", read_fails |-> {"gpu", "power", "cpu"}]}

\* UltimateNPUMonitor.sample_pdh_metrics with a counter found for each of the
\* three metrics: a raise of AddCounter leaves the whole try block, a raise of
\* a single read leaves that metric at 0.0
SamplePdhMetrics(env, gpu_value, power_value, cpu_value) ==
    IF ~env.has_deps \/ env.add_raises # "none"
    THEN [gpu_compute_avg |-> 0, power_current |-> 0, cpu_utility |-> 0]
    ELSE [gpu_compute_avg |-> IF "gpu" \in env.read_fails THEN 0 ELSE gpu_value,
          power_current |-> IF "power" \in env.read_fails THEN 0 ELSE power_value,
          cpu_utility |-> IF "cpu" \in env.read_fails THEN 0 ELSE cpu_value]

\* no AI process, one of low confidence, two of high confidence
SignalProcessLists ==
    {<<>>,
     <<[cpu_percent |-> P(2), ai_confidence |-> 0]>>,
     <<[cpu_percent |-> P(15), ai_confidence |-> 10], [cpu_percent |-> P(30), ai_confidence |-> 6]>>}

SignalEtwEventCounts == {0, 3}

InitSignals == blend = [source |-> "none"] /\ IdleExceptBlend

\* one estimate_npu_usage_indirect() of FinalNPUMonitor, kept with what its
\* signal sources delivered
FinalSignalsTick ==
    /\ \E ai_processes \in SignalProcessLists, cpu_raises \in BOOLEAN, cpu_percent \in CpuPercents,
          gpu_activity \in GpuActivities, power_change \in BOOLEAN :
           blend' = [source |-> "final_signals",
                     ai_processes |-> ai_processes, cpu_raises |-> cpu_raises,
                     cpu_percent |-> cpu_percent, gpu_activity |-> gpu_activity,
                     power_change |-> power_change,
                     result |-> EstimateNpuUsageIndirect(ai_processes, cpu_raises, cpu_percent,
                                                         gpu_activity, power_change)]
    /\ UNCHANGED notBlendVars

\* sample_pdh_metrics() and estimate_npu_utilization() of one cycle of
\* UltimateNPUMonitor, kept with what the counters held
UltimateSignalsTick ==
    /\ \E env \in PdhSamplings, ai_processes \in SignalProcessLists,
          gpu_value \in GpuActivities, cpu_value \in CpuUtilities,
          etw_events \in SignalEtwEventCounts :
           LET pdh_metrics == SamplePdhMetrics(env, gpu_value, P(12), cpu_value)
           IN  blend' = [source |-> "ultimate_signals",
                         env |-> env, ai_processes |-> ai_processes,
                         gpu_value |-> gpu_value, cpu_value |-> cpu_value,
                         etw_events |-> etw_events, pdh_metrics |-> pdh_metrics,
                         result |-> EstimateNpuUtilization(pdh_metrics.gpu_compute_avg,
                                                           pdh_metrics.cpu_utility,
                                                           ai_processes, etw_events)]
    /\ UNCHANGED notBlendVars

NextSignals ==
    \/ FinalSignalsTick
    \/ UltimateSignalsTick

SpecSignals == InitSignals /\ [][NextSignals]_vars

\* the source of a metric of sample_pdh_metrics delivered its value
PdhSourceWorks(env, counter) ==
    env.has_deps /\ env.add_raises # counter /\ counter \notin env.read_fails

\* C22: a failing signal source takes only its own signal out of the blend.
\* FinalNPUMonitor: when the CPU sampling raises, the efficiency bonus is
\* omitted and the AI-process, GPU and power signals contribute what they
\* contribute otherwise.  UltimateNPUMonitor: a metric whose counter fails
\* contributes nothing (a failed CPU counter gives no efficiency bonus) and a
\* metric whose own counter works contributes its value, whichever other
\* counter failed.
C22_OnlyFailedSignalOmitted ==
    /\ (blend.source = "final_signals" /\ blend.cpu_raises) =>
           /\ blend.result.efficiency_part = 0
           /\ blend.result.ai_part = FinalAiStep(blend.ai_processes).part
           /\ blend.result.gpu_part =
                  (IF blend.gpu_activity > P(5) THEN blend.gpu_activity \div 2 ELSE 0)
           /\ blend.result.power_part = (IF blend.power_change THEN P(10) ELSE 0)
    /\ blend.source = "ultimate_signals" =>
           /\ PdhSourceWorks(blend.env, "gpu") =>
                  blend.result.gpu_part =
                      (IF blend.gpu_value > P(5) THEN Min2(blend.gpu_value \div 2, P(20))
                       ELSE 0)
           /\ ~PdhSourceWorks(blend.env, "gpu") => blend.result.gpu_part = 0
           /\ ~PdhSourceWorks(blend.env, "cpu") => blend.result.efficiency_part = 0

-----------------------------------------------------------------------------
(* Opening the counters: PDHCollector._try_build and
   NPUPerformanceCollector._try_build, which differ only in the pattern *)

\* the pattern expanded to at least one path
PathsFound == pdh.env.has_pdh /\ ~pdh.env.expand_raises /\ pdh.env.paths > 0

AttachSucceeded == {i \in 1..Len(pdh.env.attach) : pdh.env.attach[i]}

\* C23: a path whose AddCounter raises is skipped and the others are kept:
\* the attached counters are exactly the paths whose attach succeeded, each
\* once.  The collector is unavailable for the session whenever that set is
\* empty; with at least one path attached it is available if and only if the
\* first collection of the build succeeds as well.
C23_AttachFailuresSkipped ==
    (pdh.built = "yes" /\ PathsFound) =>
        /\ \A i \in 1..Len(pdh.env.attach) :
               (i \in AttachSucceeded) <=> (\E j \in 1..Len(pdh.counters) : pdh.counters[j] = i)
        /\ Len(pdh.counters) = Cardinality(AttachSucceeded)
        /\ AttachSucceeded = {} => ~pdh.available
        /\ pdh.available <=> (AttachSucceeded # {} /\ pdh.env.primes)

\* of two paths the first failed to attach and the second attached: the
\* collector is available with the second alone
C23_Witness ==
    /\ pdh.built = "yes"
    /\ PathsFound
    /\ pdh.env.attach = <<FALSE, TRUE>>
    /\ pdh.counters = <<2>>
    /\ pdh.available
    /\ pdh.data_seen

\* C23 as stated: unavailable if and only if no path attached
C23_AsStated ==
    (pdh.built = "yes" /\ PathsFound) =>
        /\ \A i \in 1..Len(pdh.env.attach) :
               (i \in AttachSucceeded) <=> (\E j \in 1..Len(pdh.counters) : pdh.counters[j] = i)
        /\ pdh.available <=> AttachSucceeded # {}

-----------------------------------------------------------------------------
(* The instance label of a counter path, as PDHCollector.collect and
   NPUPerformanceCollector.collect extract it *)

\* str.find(ch): the 0-based index of the first ch in p, -1 when there is none
RECURSIVE FindFrom(_, _, _)
FindFrom(ch, p, i) ==
    IF i > Len(p) THEN -1
    ELSE IF p[i] = ch THEN i - 1
    ELSE FindFrom(ch, p, i + 1)

Find(ch, p) == FindFrom(ch, p, 1)

\* p[a:b] for 0 <= a and 0 <= b
Slice(p, a, b) == SubSeq(p, a + 1, Min2(b, Len(p)))

\* p[p.find('(')+1:p.find(')')] if '(' in p and ')' in p else p
InstanceLabel(p) ==
    IF Find("(", p) >= 0 /\ Find(")", p) >= 0
    THEN Slice(p, Find("(", p) + 1, Find(")", p))
    ELSE p

MaxPathLen == 4

PathChars == {"(", ")", "a"}

RECURSIVE PathsUpTo(_)
PathsUpTo(n) ==
    IF n = 0 THEN {<<>>}
    ELSE PathsUpTo(n - 1)
             \cup {Append(q, c) : q \in {r \in PathsUpTo(n - 1) : Len(r) = n - 1}, c \in PathChars}

InitLabel ==
    /\ pdh \in [built : {"path"}, path : PathsUpTo(MaxPathLen), label : {<<>>}]
    /\ IdleExceptCol

\* the label of the path is extracted
ExtractLabel ==
    /\ pdh.built = "path"
    /\ pdh' = [pdh EXCEPT !.built = "label", !.label = InstanceLabel(pdh.path)]
    /\ UNCHANGED notColVars

NextLabel == ExtractLabel

SpecLabel == InitLabel /\ [][NextLabel]_vars

\* (i, j) is the first matching pair of parentheses of p: the first '(' that
\* has a ')' after it, and the first ')' after it
FirstPair(p, i, j) ==
    /\ i \in 1..Len(p) /\ j \in 1..Len(p) /\ i < j
    /\ p[i] = "(" /\ p[j] = ")"
    /\ \A k \in (i + 1)..(j - 1) : p[k] # ")"
    /\ \A k \in 1..(i - 1) : p[k] = "(" => \A m \in (k + 1)..Len(p) : p[m] # ")"

HasPair(p) == \E i \in 1..Len(p), j \in 1..Len(p) : FirstPair(p, i, j)

\* C26: the label is the text between the first matching pair of parentheses
\* of the path, and the whole path when it has no matching pair, also when a
\* ')' comes before the first '(' and when the parentheses enclose nothing.
C26_InstanceLabel ==
    pdh.built = "label" =>
        /\ \A i \in 1..Len(pdh.path), j \in 1..Len(pdh.path) :
               FirstPair(pdh.path, i, j) => pdh.label = SubSeq(pdh.path, i + 1, j - 1)
        /\ ~HasPair(pdh.path) => pdh.label = pdh.path

-----------------------------------------------------------------------------
(* The counter collections of one sample call: PDHCollector.collect,
   NPUPerformanceCollector.collect and
   FinalNPUMonitor._sample_gpu_compute_activity *)

MaxSampleCalls == 3

SamplingPaths == << <<"(">> \o LblCompute0 \o <<")">>, <<"(">> \o LblCompute1 \o <<")">> >>

\* what the operating system does during one sample call: CollectQueryData
\* raises or not, the counters whose GetFormattedCounterValue raises, and the
\* formatted values of the others
SampleOutcomes ==
    [collect_raises : BOOLEAN, read_fails : SUBSET (1..2),
     values : {<<Num(P(12)), Num(P(40))>>, <<NaN, Num(P(40))>>}]

\* the last collection made on the collector's query before this call
PrevCollection(c) == CHOOSE t \in c.collected : \A u \in c.collected : u <= t

NoCollection(c) ==
    [collections |-> 0, from |-> <<>>, read |-> FALSE, raised |-> FALSE,
     read_failed |-> {}, result |-> <<>>, collected |-> c.collected]

\* the entries data[inst] = float(val) of the counters that could be read
ReadCounters(c, o) ==
    LET ok == SelectSeq([i \in 1..Len(c.counters) |-> i], LAMBDA i : i \notin o.read_fails)
    IN  [k \in 1..Len(ok) |-> [name |-> InstanceLabel(c.counters[ok[k]]),
                                value |-> o.values[ok[k]]]]

\* a collect() that collects twice around the delay
PdhCollectTwice(c, o, call, include_names, exclude_contains) ==
    IF ~c.available THEN NoCollection(c)
    ELSE IF o.collect_raises THEN [NoCollection(c) EXCEPT !.raised = TRUE]
    ELSE [collections |-> 2, from |-> <<call, call>>, read |-> TRUE, raised |-> FALSE,
          read_failed |-> o.read_fails \cap (1..Len(c.counters)),
          result |-> FilterData(ReadCounters(c, o), include_names, exclude_contains),
          collected |-> c.collected \cup {call}]

\* a collect() in which a counter that cannot be read ends the sample
PdhCollectReadFatal(c, o, call, include_names, exclude_contains) ==
    IF ~c.available THEN NoCollection(c)
    ELSE IF o.collect_raises THEN [NoCollection(c) EXCEPT !.raised = TRUE]
    ELSE [collections |-> 1, from |-> <<PrevCollection(c), call>>, read |-> TRUE,
          raised |-> FALSE,
          read_failed |-> o.read_fails \cap (1..Len(c.counters)),
          result |-> IF o.read_fails \cap (1..Len(c.counters)) # {} THEN <<>>
                     ELSE FilterData(ReadCounters(c, o), include_names, exclude_contains),
          collected |-> c.collected \cup {call}]

\* PDHCollector.collect: sleep, one CollectQueryData, then the formatted value
\* of every counter that can be read, filtered
PdhCollect(c, o, call, include_names, exclude_contains) ==
    IF ~c.available THEN NoCollection(c)
    ELSE IF o.collect_raises THEN [NoCollection(c) EXCEPT !.raised = TRUE]
    ELSE [collections |-> 1, from |-> <<PrevCollection(c), call>>, read |-> TRUE,
          raised |-> FALSE,
          read_failed |-> o.read_fails \cap (1..Len(c.counters)),
          result |-> FilterData(ReadCounters(c, o), include_names, exclude_contains),
          collected |-> c.collected \cup {call}]

\* NPUPerformanceCollector.collect: the same steps, keeping every value that
\* is a number and not negative
NpuCollect(c, o, call) == PdhCollect(c, o, call, <<>>, <<>>)

\* FinalNPUMonitor._sample_gpu_compute_activity: a query of its own with the
\* first gpu_compute path, two collections around the delay, 0.0 on a raise
SampleGpuComputeActivity(c, o, call) ==
    LET zero == <<[name |-> <<>>, value |-> Num(0)]>>
    IN  IF c.counters = <<>> THEN [NoCollection(c) EXCEPT !.result = zero]
        ELSE IF o.collect_raises
        THEN [NoCollection(c) EXCEPT !.raised = TRUE, !.result = zero]
        ELSE IF 1 \in o.read_fails
        THEN [NoCollection(c) EXCEPT !.collections = 2, !.read_failed = {1}, !.result = zero]
        ELSE [collections |-> 2, from |-> <<call, call>>, read |-> TRUE, raised |-> FALSE,
              read_failed |-> {},
              result |-> <<[name |-> <<>>, value |-> o.values[1]]>>,
              collected |-> c.collected]

\* the collectors after construction: an available collector has made the
\* first collection of its query in _try_build (collection 0)
InitSampling ==
    /\ pdh \in {c \in [built : {"sampling"}, who : {"pdh", "npu", "final"},
                       available : BOOLEAN, counters : {<<>>, SamplingPaths},
                       collected : {{}, {0}}, calls : {0}, last : {<<>>}] :
                  /\ c.available => c.counters # <<>>
                  /\ c.who = "final" => (c.collected = {} /\ c.available = (c.counters # <<>>))
                  /\ c.who # "final" => (c.collected = {0}) = c.available}
    /\ IdleExceptCol

SampleStep(sampled) ==
    pdh' = [pdh EXCEPT !.calls = @ + 1,
                       !.collected = sampled.collected,
                       !.last = [call |-> pdh.calls + 1,
                                 collections |-> sampled.collections,
                                 from |-> sampled.from,
                                 read |-> sampled.read,
                                 raised |-> sampled.raised,
                                 read_failed |-> sampled.read_failed,
                                 result |-> sampled.result]]

\* one collect() of the GPU engine collector
PdhCollectCall ==
    /\ pdh.built = "sampling" /\ pdh.who = "pdh"
    /\ pdh.calls < MaxSampleCalls
    /\ \E o \in SampleOutcomes :
           SampleStep(PdhCollect(pdh, o, pdh.calls + 1, GpuIncludeNames, GpuExcludeContains))
    /\ UNCHANGED notColVars

\* one collect() of the NPU engine collector
NpuCollectCall ==
    /\ pdh.built = "sampling" /\ pdh.who = "npu"
    /\ pdh.calls < MaxSampleCalls
    /\ \E o \in SampleOutcomes : SampleStep(NpuCollect(pdh, o, pdh.calls + 1))
    /\ UNCHANGED notColVars

\* one _sample_gpu_compute_activity()
SampleGpuComputeActivityCall ==
    /\ pdh.built = "sampling" /\ pdh.who = "final"
    /\ pdh.calls < MaxSampleCalls
    /\ \E o \in SampleOutcomes : SampleStep(SampleGpuComputeActivity(pdh, o, pdh.calls + 1))
    /\ UNCHANGED notColVars

NextSampling ==
    \/ PdhCollectCall
    \/ NpuCollectCall
    \/ SampleGpuComputeActivityCall

SpecSampling == InitSampling /\ [][NextSampling]_vars

Sampled == pdh.built = "sampling" /\ pdh.calls > 0

\* C24: a call that reads formatted values has collected before reading. In
\* _sample_gpu_compute_activity both collections behind the values are made
\* within the call; in the two collect() functions the call makes one
\* collection, after the delay, and the values come from that collection and
\* the last collection made before the call.
C24_CollectionsBehindValues ==
    (Sampled /\ pdh.last.read) =>
        /\ pdh.who = "final" =>
               /\ pdh.last.collections = 2
               /\ pdh.last.from = <<pdh.last.call, pdh.last.call>>
        /\ pdh.who # "final" =>
               /\ pdh.last.collections = 1
               /\ pdh.last.from[2] = pdh.last.call
               /\ pdh.last.from[1] < pdh.last.call
               /\ pdh.last.from[1] \in pdh.collected
               /\ \A t \in pdh.collected : t < pdh.last.call => t <= pdh.last.from[1]

\* a collect() whose values span from the construction to the third call,
\* the two calls between having failed to collect
C24_Witness ==
    /\ Sampled /\ pdh.who = "pdh" /\ pdh.last.read
    /\ pdh.last.from = <<0, 3>>
    /\ pdh.last.result # <<>>

\* the values of every call come from two collections made within the call
C24_AsStated ==
    (Sampled /\ pdh.last.read) =>
        /\ pdh.last.collections = 2
        /\ pdh.last.from = <<pdh.last.call, pdh.last.call>>

\* the counter at position i of the collector is in the map with value v
ReturnedIn(result, i, v) ==
    \E k \in 1..Len(result) :
        result[k] = [name |-> InstanceLabel(pdh.counters[i]), value |-> v]

\* C25: a collect() never raises and never changes the availability of the
\* collector. When the collection itself fails the call returns the empty
\* map. When only the reading of some counters fails, the call returns the
\* map of the other counters: exactly the counters that could be read and
\* have a valid value are in it.
C25_FailureInSample ==
    [][(pdh.built = "sampling" /\ pdh.who # "final") =>
          /\ pdh'.available = pdh.available
          /\ pdh'.counters = pdh.counters
          /\ pdh'.last.raised => pdh'.last.result = <<>>
          /\ ~pdh.available => pdh'.last.result = <<>>
          /\ pdh'.last.read =>
                 /\ Len(pdh'.last.result) <= Len(pdh.counters)
                 /\ \E o \in SampleOutcomes :
                        \A i \in 1..Len(pdh.counters) :
                            (i \notin pdh'.last.read_failed /\ ~IsNan(o.values[i]))
                                <=> ReturnedIn(pdh'.last.result, i, o.values[i])
      ]_vars

\* a call in which one counter could not be read returned the other one, and
\* the collector is still available
C25_Witness ==
    /\ Sampled /\ pdh.who = "npu" /\ pdh.available
    /\ pdh.last.read_failed = {1}
    /\ Len(pdh.last.result) = 1
    /\ pdh.last.result[1].name = LblCompute1

\* every failure during a sample gives the empty map
C25_AsStated ==
    (Sampled /\ pdh.who # "final" /\ (pdh.last.raised \/ pdh.last.read_failed # {})) =>
        pdh.last.result = <<>>

-----------------------------------------------------------------------------
(* One tick of HardwareMonitor: collect_and_display_metrics with
   SystemCollector.collect, update_averages and display_metrics *)

MaxSnapshots == 3

IoNone == [none |-> TRUE, first |-> 0, second |-> 0]

Io(first, second) == [none |-> FALSE, first |-> first, second |-> second]

\* psutil.disk_io_counters() / psutil.net_io_counters(): the system-wide
\* counters, or None when the system reports no disk or no interface
IoReadings == {IoNone, Io(100, 50)}

TickGpuReadings ==
    {<<[name |-> LblCompute0, value |-> Num(P(12))]>>,
     <<[name |-> LblCompute0, value |-> Num(P(40))]>>}

TickNpuReadings == {<<>>, <<[name |-> LblCompute1, value |-> Num(P(20))]>>}

TickCpuOverall == P(10)

TickMemoryPercent == P(50)

\* the rate max(0.0, now - last) / elapsed, over an elapsed time of one second
IoRate(now, last) == Some(Max2(0, now - last))

\* a collect() that reports a rate of 0 when there is no previous reading
SystemCollectRatesAtFirst(c, disk_io, net_io) ==
    LET disk_raises == c.last_disk_io /\ disk_io.none
        net_raises == c.last_net_io /\ net_io.none
    IN  [raises |-> disk_raises \/ net_raises,
         cpu_overall |-> TickCpuOverall,
         memory_percent |-> TickMemoryPercent,
         disk_read_rate |-> IF disk_io.none THEN None ELSE Some(0),
         disk_write_rate |-> IF disk_io.none THEN None ELSE Some(0),
         net_send_rate |-> IF net_io.none THEN None ELSE Some(0),
         net_recv_rate |-> IF net_io.none THEN None ELSE Some(0),
         last_disk_io |-> IF disk_raises THEN c.last_disk_io ELSE ~disk_io.none,
         last_net_io |-> IF disk_raises \/ net_raises THEN c.last_net_io ELSE ~net_io.none]

\* SystemCollector.collect. last_disk_io and last_net_io say whether a
\* previous reading is stored (the counters of the stored reading are those of
\* Io(100, 50)); reading .read_bytes of a None result raises AttributeError
SystemCollect(c, disk_io, net_io) ==
    LET disk_raises == c.last_disk_io /\ disk_io.none
        net_raises == c.last_net_io /\ net_io.none
    IN  [raises |-> disk_raises \/ net_raises,
         cpu_overall |-> TickCpuOverall,
         memory_percent |-> TickMemoryPercent,
         disk_read_rate |-> IF c.last_disk_io THEN IoRate(disk_io.first, 100) ELSE None,
         disk_write_rate |-> IF c.last_disk_io THEN IoRate(disk_io.second, 50) ELSE None,
         net_send_rate |-> IF c.last_net_io THEN IoRate(net_io.first, 100) ELSE None,
         net_recv_rate |-> IF c.last_net_io THEN IoRate(net_io.second, 50) ELSE None,
         last_disk_io |-> IF disk_raises THEN c.last_disk_io ELSE ~disk_io.none,
         last_net_io |-> IF disk_raises \/ net_raises THEN c.last_net_io ELSE ~net_io.none]

\* HardwareMonitor.update_averages; gpu_reading is what the counters give the
\* collect() inside its get_gpu_usage() call
UpdateAverages(averages, sys_data, available, gpu_reading, npu_data) ==
    LET io == ~sys_data.disk_read_rate.none
        net == ~sys_data.net_send_rate.none
    IN  [cpu |-> RaAdd(averages.cpu, Some(sys_data.cpu_overall)),
         memory |-> RaAdd(averages.memory, Some(sys_data.memory_percent)),
         disk_read |-> IF io THEN RaAdd(averages.disk_read, sys_data.disk_read_rate)
                       ELSE averages.disk_read,
         disk_write |-> IF io THEN RaAdd(averages.disk_write, sys_data.disk_write_rate)
                        ELSE averages.disk_write,
         net_send |-> IF net THEN RaAdd(averages.net_send, sys_data.net_send_rate)
                      ELSE averages.net_send,
         net_recv |-> IF net THEN RaAdd(averages.net_recv, sys_data.net_recv_rate)
                      ELSE averages.net_recv,
         gpu |-> IF available
                 THEN RaAdd(averages.gpu,
                            Some(GetGpuUsage(available, FALSE, gpu_reading).overall))
                 ELSE averages.gpu,
         npu |-> IF npu_data # <<>>
                 THEN RaAdd(averages.npu, Some(SummarizeEngineUtil(npu_data, <<>>).overall))
                 ELSE averages.npu]

\* HardwareMonitor.display_metrics: the current values of the GPU and NPU
\* lines; gpu_reading is what the counters give the collect() inside its
\* get_gpu_usage() call
DisplayMetrics(available, gpu_reading, npu_data) ==
    [gpu_curr |-> IF available
                  THEN Some(GetGpuUsage(available, FALSE, gpu_reading).overall)
                  ELSE None,
     npu_curr |-> IF npu_data # <<>> THEN Some(SummarizeEngineUtil(npu_data, <<>>).overall)
                  ELSE None]

NoSnapshot ==
    [gpu_collects |-> 0, gpu_data |-> <<>>, update_reading |-> <<>>,
     display_reading |-> <<>>, gpu_added |-> None, gpu_curr |-> None,
     npu_added |-> None, npu_curr |-> None]

InitSnapshots ==
    /\ hm \in [loop : {"ticking"}, ticks : {0}, last_disk_io : {FALSE}, last_net_io : {FALSE},
               disk_seen : {0}, net_seen : {0}, gpu_available : BOOLEAN,
               averages : {[k \in {"cpu", "memory", "disk_read", "disk_write", "net_send",
                                   "net_recv", "gpu", "npu"} |-> RaNew]},
               shown : {NoSnapshot}]
    /\ fm = [monitoring_active |-> FALSE, thread |-> "idle", results |-> 0, errors |-> 0]
    /\ IdleExceptLoop

\* collect_and_display_metrics: the three collectors are sampled, the averages
\* are updated and the lines are printed; update_averages and display_metrics
\* each call get_gpu_usage(), which samples the GPU collector again. An
\* exception of SystemCollector.collect leaves the loop.
CollectAndDisplayMetrics ==
    /\ hm.loop = "ticking"
    /\ hm.ticks < MaxSnapshots
    /\ \E disk_io \in IoReadings, net_io \in IoReadings, npu_reading \in TickNpuReadings,
          first \in TickGpuReadings, second \in TickGpuReadings, third \in TickGpuReadings :
           LET sys_data == SystemCollect(hm, disk_io, net_io)
               gpu_data == Collect(hm.gpu_available, FALSE, first, GpuIncludeNames,
                                   GpuExcludeContains)
               npu_data == Collect(TRUE, FALSE, npu_reading, <<>>, <<>>)
               averages == UpdateAverages(hm.averages, sys_data, hm.gpu_available, second,
                                          npu_data)
               lines == DisplayMetrics(hm.gpu_available, third, npu_data)
           IN  IF sys_data.raises
               THEN hm' = [hm EXCEPT !.loop = "raised",
                                     !.last_disk_io = sys_data.last_disk_io,
                                     !.last_net_io = sys_data.last_net_io]
               ELSE hm' = [hm EXCEPT
                              !.ticks = @ + 1,
                              !.last_disk_io = sys_data.last_disk_io,
                              !.last_net_io = sys_data.last_net_io,
                              !.disk_seen = IF disk_io.none THEN @ ELSE @ + 1,
                              !.net_seen = IF net_io.none THEN @ ELSE @ + 1,
                              !.averages = averages,
                              !.shown =
                                  [gpu_collects |-> IF hm.gpu_available THEN 3 ELSE 1,
                                   gpu_data |-> gpu_data,
                                   update_reading |-> IF hm.gpu_available THEN second ELSE <<>>,
                                   display_reading |-> IF hm.gpu_available THEN third ELSE <<>>,
                                   gpu_added |-> IF hm.gpu_available
                                                 THEN Some(averages.gpu.total - hm.averages.gpu.total)
                                                 ELSE None,
                                   gpu_curr |-> lines.gpu_curr,
                                   npu_added |-> IF npu_data # <<>>
                                                 THEN Some(averages.npu.total - hm.averages.npu.total)
                                                 ELSE None,
                                   npu_curr |-> lines.npu_curr]]
    /\ UNCHANGED fm
    /\ UNCHANGED notLoopVars

NextSnapshots == CollectAndDisplayMetrics

SpecSnapshots == InitSnapshots /\ [][NextSnapshots]_vars

\* C27: each tick samples the engine counters once and the snapshot is built
\* from that one sample: the GPU value added to the GPU running average is the
\* GPU current value of the tick's output, and the map the update step works
\* on is the map the output is computed from.
C27_SingleSample ==
    (hm.loop = "ticking" /\ hm.ticks >= 1) =>
        /\ hm.shown.gpu_collects = 1
        /\ hm.shown.gpu_added = hm.shown.gpu_curr
        /\ hm.shown.npu_added = hm.shown.npu_curr
        /\ hm.gpu_available =>
               /\ hm.shown.update_reading = hm.shown.gpu_data
               /\ hm.shown.display_reading = hm.shown.gpu_data

Ticked == hm.loop = "ticking" /\ hm.ticks >= 1

PairsEqual ==
    /\ hm.averages.disk_read.count = hm.averages.disk_write.count
    /\ hm.averages.net_send.count = hm.averages.net_recv.count

\* C29: after any number of completed ticks the paired running averages have
\* equal sample counts and the cpu and memory averages have one sample per
\* completed tick. The disk averages have one sample fewer than the number
\* of ticks in which disk_io_counters() returned a reading (none when it
\* never did), and the net averages likewise for net_io_counters(); when every
\* tick had a reading that is one fewer than cpu.
C29_AverageCounts ==
    hm.loop = "ticking" =>
        /\ PairsEqual
        /\ hm.averages.cpu.count = hm.ticks
        /\ hm.averages.memory.count = hm.ticks
        /\ hm.averages.disk_read.count = Max2(0, hm.disk_seen - 1)
        /\ hm.averages.net_send.count = Max2(0, hm.net_seen - 1)
        /\ (hm.ticks >= 1 /\ hm.disk_seen = hm.ticks) =>
               hm.averages.disk_read.count = hm.averages.cpu.count - 1
        /\ (hm.ticks >= 1 /\ hm.net_seen = hm.ticks) =>
               hm.averages.net_send.count = hm.averages.cpu.count - 1

\* three ticks with disk and network readings: three cpu samples, two disk
\* and two net samples
C29_Witness ==
    /\ Ticked
    /\ hm.averages.cpu.count = 3
    /\ hm.averages.disk_write.count = 2
    /\ hm.averages.net_recv.count = 2

\* the disk and net averages always have exactly one sample fewer than cpu
C29_AsStated ==
    Ticked =>
        /\ PairsEqual
        /\ hm.averages.cpu.count = hm.ticks
        /\ hm.averages.memory.count = hm.ticks
        /\ hm.averages.disk_read.count = hm.averages.cpu.count - 1
        /\ hm.averages.net_send.count = hm.averages.cpu.count - 1

-----------------------------------------------------------------------------
(* The estimate operations called on demand: estimate_npu_usage of
   npu_monitor.py, estimate_npu_offload of ai_activity_detector.py and
   estimate_npu_from_cpu of simple_npu_monitor.py *)

MaxUpdates == 2

MaxEstimateCalls == 3

OnDemandParams ==
    [idle : {20}, active : {16, 18}, amp : {0, 1}, shape : {<<9, 5>>, <<10, 5>>, <<20, 10>>}]

OnDemandCpuPercents == {0, 30}

\* the windows of an estimator, filled by earlier ticks
OnDemandWindows(who, w) ==
    [who |-> who, updates |-> 0, baseline |-> WindowsOf(w).baseline,
     active |-> WindowsOf(w).active, process_count |-> WindowsOf(w).process_count]

\* the estimate operation of the estimator on its windows
EstimateOf(e) ==
    IF e.who = "npu_monitor" THEN EstimateNpuUsage(e.baseline, e.active, e.process_count)
    ELSE IF e.who = "offload" THEN EstimateNpuOffload(e.baseline, e.active)
    ELSE EstimateNpuFromCpu(e.baseline, e.active)

\* the windows after update_baseline(cpu) or update_ai_activity(cpu, 1), and
\* after the append at the head of estimate_npu_from_cpu(cpu, ai_active)
Appended(e, cpu_percent, ai_active) ==
    LET maxlen == IF e.who = "offload" THEN OffloadHistorySize
                  ELSE IF e.who = "simple" THEN SimpleHistorySize ELSE HistorySize
    IN  IF ai_active
        THEN [e EXCEPT !.active = DequeAppend(@, cpu_percent, maxlen),
                       !.process_count = DequeAppend(@, 1, maxlen)]
        ELSE [e EXCEPT !.baseline = DequeAppend(@, cpu_percent, maxlen)]

InitOnDemand ==
    /\ est_in \in {OnDemandWindows(who, w) :
                       who \in {"npu_monitor", "offload", "simple"}, w \in OnDemandParams}
    /\ est_out = [method |-> "none", calls |-> 0, result |-> NoEstimate]
    /\ IdleExceptApply

\* a tick of the monitor loop: update_baseline or update_ai_activity
\* (update_baseline_cpu or update_ai_cpu in ai_activity_detector.py)
UpdateWindows ==
    /\ est_in.who \in {"npu_monitor", "offload"}
    /\ est_in.updates < MaxUpdates
    /\ \E cpu_percent \in OnDemandCpuPercents, ai_active \in BOOLEAN :
           est_in' = [Appended(est_in, cpu_percent, ai_active) EXCEPT !.updates = @ + 1]
    /\ est_out' = [method |-> "update", calls |-> 0, result |-> NoEstimate]
    /\ UNCHANGED notApplyVars

\* an estimate call that drops the oldest baseline sample it has used
EstimateCallConsumes ==
    /\ est_in.who \in {"npu_monitor", "offload"}
    /\ est_out.calls < MaxEstimateCalls
    /\ est_out' = [method |-> "estimate", calls |-> est_out.calls + 1,
                   result |-> EstimateOf(est_in)]
    /\ est_in' = [est_in EXCEPT !.baseline = IF @ = <<>> THEN @ ELSE Tail(@)]
    /\ UNCHANGED notApplyVars

\* estimate_npu_usage() / estimate_npu_offload()
EstimateCall ==
    /\ est_in.who \in {"npu_monitor", "offload"}
    /\ est_out.calls < MaxEstimateCalls
    /\ est_out' = [method |-> "estimate", calls |-> est_out.calls + 1,
                   result |-> EstimateOf(est_in)]
    /\ UNCHANGED est_in
    /\ UNCHANGED notApplyVars

\* estimate_npu_from_cpu(current_cpu, ai_active): the sample is appended to
\* one of the windows, then the estimate is computed
EstimateNpuFromCpuCall ==
    /\ est_in.who = "simple"
    /\ est_out.calls < MaxEstimateCalls
    /\ \E cpu_percent \in OnDemandCpuPercents, ai_active \in BOOLEAN :
           LET appended == Appended(est_in, cpu_percent, ai_active)
           IN  /\ est_in' = appended
               /\ est_out' = [method |-> "estimate", calls |-> est_out.calls + 1,
                              result |-> EstimateOf(appended)]
    /\ UNCHANGED notApplyVars

NextOnDemand ==
    \/ UpdateWindows
    \/ EstimateCall
    \/ EstimateNpuFromCpuCall

SpecOnDemand == InitOnDemand /\ [][NextOnDemand]_vars

EstimateCalled == est_out'.method = "estimate" /\ est_out'.calls = est_out.calls + 1

\* C28: estimate_npu_usage and estimate_npu_offload are computed on demand and
\* read-only: a call leaves the windows unchanged, and every call made
\* between two ticks returns the same result, the estimate over the windows.
\* estimate_npu_from_cpu is not read-only: each call appends its cpu argument
\* to the baseline or to the active window before it estimates.
C28_EstimateOnDemand ==
    [][EstimateCalled =>
          /\ est_in.who \in {"npu_monitor", "offload"} =>
                 /\ est_in' = est_in
                 /\ est_out'.result = EstimateOf(est_in)
                 /\ est_out.calls >= 1 => est_out'.result = est_out.result
          /\ est_in.who = "simple" =>
                 /\ Len(est_in'.baseline) + Len(est_in'.active)
                        = Len(est_in.baseline) + Len(est_in.active) + 1
                 /\ est_out'.result = EstimateOf(est_in')
      ]_vars

\* the third call after a tick of NPUUsageEstimator, returning an estimate
C28_Witness ==
    /\ est_in.who = "npu_monitor"
    /\ est_in.updates >= 1
    /\ est_out.method = "estimate"
    /\ est_out.calls = 3
    /\ est_out.result.kind = "estimate"

\* every estimate call leaves the windows unchanged and repeats the result
C28_AsStated ==
    [][EstimateCalled =>
          /\ est_in' = est_in
          /\ est_out.calls >= 1 => est_out'.result = est_out.result
      ]_vars

-----------------------------------------------------------------------------
(* compute_percent and overall_percent of get_gpu_detailed_info in floating
   point.  A float is a rational m * 2^e whose mantissa m has FloatPrecision
   bits; every operation rounds its exact result to the nearest float, ties
   to the even mantissa.  Python floats have 53 bits; the rounding below is
   the same rule on a shorter mantissa. *)

FloatPrecision == 5

RECURSIVE Pow2(_)
Pow2(k) == IF k = 0 THEN 1 ELSE 2 * Pow2(k - 1)

\* the exponent e of the float nearest below n / d: 2^(p-1) <= (n/d) / 2^e < 2^p
FlExp(n, d) ==
    CHOOSE e \in (0 - FloatPrecision)..FloatPrecision :
        LET up == IF e < 0 THEN Pow2(0 - e) ELSE 1
            down == IF e > 0 THEN Pow2(e) ELSE 1
        IN  /\ Pow2(FloatPrecision - 1) * d * down <= n * up
            /\ n * up < Pow2(FloatPrecision) * d * down

\* n / d rounded to the nearest float, ties to even
Fl(n, d) ==
    IF n = 0 THEN R(0, 1)
    ELSE LET e == FlExp(n, d)
             up == IF e < 0 THEN Pow2(0 - e) ELSE 1
             down == IF e > 0 THEN Pow2(e) ELSE 1
             m == (n * up) \div (d * down)
             rest == (n * up) % (d * down)
             rounded == IF 2 * rest > d * down \/ (2 * rest = d * down /\ m % 2 = 1)
                        THEN m + 1 ELSE m
         IN  R(rounded * down, up)

\* the distance from the float x to the next float above it
Ulp(x) ==
    LET e == FlExp(x.n, x.d)
    IN  IF e < 0 THEN R(1, Pow2(0 - e)) ELSE R(Pow2(e), 1)

\* sum(vals) as a loop of float additions starting from 0
RECURSIVE PySumFrom(_, _)
PySumFrom(acc, vals) ==
    IF vals = <<>> THEN acc
    ELSE PySumFrom(Fl(acc.n + Head(vals) * acc.d, acc.d), Tail(vals))

\* sum(vals): the additions rounded one by one, or (the compensated sum of
\* newer interpreters) the exact sum rounded once
PySum(vals, compensated) ==
    IF compensated THEN Fl(SumSeq(vals), 1) ELSE PySumFrom(R(0, 1), vals)

\* the two figures with the Compute figure taken as the lowest reading
FloatFiguresLowest(gpu_data, compensated) ==
    LET overall_data == OverallData(gpu_data)
        top == FirstK(SortedDesc(overall_data), TopK)
        total == PySum(Vals(top), compensated)
    IN  [compute_percent |-> R(SortedDesc(gpu_data)[Len(gpu_data)].val, 1),
         overall_percent |-> Fl(total.n, total.d * Len(top)),
         exact_mean |-> R(SumSeq(Vals(top)), Len(top))]

\* compute_overall = max(filtered.values()) over gpu_data and overall_percent =
\* sum(top) / len(top) over the entries without "copy"; exact_mean is the
\* mean of the same values in exact arithmetic
FloatFigures(gpu_data, compensated) ==
    LET overall_data == OverallData(gpu_data)
        top == FirstK(SortedDesc(overall_data), TopK)
        total == PySum(Vals(top), compensated)
    IN  [compute_percent |-> R(MaxSeq(Vals(gpu_data)), 1),
         overall_percent |-> Fl(total.n, total.d * Len(top)),
         exact_mean |-> R(SumSeq(Vals(top)), Len(top))]

\* the readings: every float of one binade
FloatReadings == Pow2(FloatPrecision - 1)..(Pow2(FloatPrecision) - 1)

FloatEngineNames == <<LblCompute0, LblCompute1, LblCompute3>>

\* the maps the GPU collector returns: one to three Compute engines, listed
\* from the largest reading down (the summary sorts the entries before it sums)
FloatMaps ==
    UNION {{[i \in 1..k |-> [name |-> FloatEngineNames[i], val |-> f[i]]] :
                f \in {g \in [1..k -> FloatReadings] :
                           \A i \in 1..(k - 1) : g[i] >= g[i + 1]}} :
           k \in 1..Len(FloatEngineNames)}

InitFloat ==
    /\ raw \in FloatMaps
    /\ gpu_available = TRUE
    /\ npu_available = FALSE
    /\ summary = NoCall
    /\ repeated = FALSE
    /\ IdleExceptAgg

\* get_gpu_detailed_info on a collector map with readings
FloatDetailedCall ==
    /\ \E compensated \in BOOLEAN :
           summary' = [path |-> "float_detailed", compensated |-> compensated,
                       info |-> FloatFigures(raw, compensated)]
    /\ UNCHANGED <<raw, gpu_available, npu_available, repeated>>
    /\ UNCHANGED notAggVars

NextFloat == FloatDetailedCall

SpecFloat == InitFloat /\ [][NextFloat]_vars

====
